---- MODULE Spec2Model ----
(***************************************************************************)
(* A model of PyNite's mesh generators (src/PyNite/Mesh.py).               *)
(*                                                                         *)
(* Numbers.  The code computes with Python floats.  The model computes     *)
(* with exact rationals: every length is an integer number of ticks,       *)
(* Scale ticks to the length unit, and Scale is divisible by every         *)
(* element count the bounds allow, so each division of the code is exact   *)
(* here.  The code compares lengths after round(., 10); on exact values    *)
(* whose distance is a whole number of ticks that comparison is the        *)
(* comparison of the values themselves, which is what the model writes.    *)
(*                                                                         *)
(* Names.  A Python string is a sequence of one-character strings, so      *)
(* that 'N' + str(k) and int(name[1:]) are computed, not assumed.          *)
(***************************************************************************)
EXTENDS Integers, Sequences, FiniteSets, TLC

VARIABLES
    cfg,        \* RectangleMesh: the constructor arguments given to both instances
    heap,       \* the list objects bound to x_control / y_control
    xref,       \* xref[m]: the list object self.x_control of mesh m refers to
    yref,       \* yref[m]: the list object self.y_control of mesh m refers to
    openings,   \* openings[m]: self.openings, name -> RectOpening
    nodes,      \* nodes[m]: self.nodes, keyed by the number k of the key 'N' + str(k)
    elements,   \* elements[m]: self.elements, keyed by the number k of prefix + str(k)
    status,     \* status[m]: "new", "generated", or the exception generate() ended with
    grid,       \* grid[m]: locals of generate(): the grid line coordinates it stepped
                \* through (its x and y), its node_del_list and element_del_list
    calls,      \* number of add_rect_opening calls made so far
    ring,       \* the ring mesh constructed last: its arguments, then its registries
    sweep,      \* an AnnulusMesh or CylinderMesh: its arguments, the locals of its
                \* _generate() and its registries
    solved,     \* solved[m]: the results the solver left in the elements of mesh m
    answer      \* the last result query made and what it returned

rectVars == <<cfg, heap, xref, yref, openings, nodes, elements, status, grid, calls,
              solved, answer>>

vars == <<cfg, heap, xref, yref, openings, nodes, elements, status, grid, calls, ring, sweep,
          solved, answer>>

----------------------------------------------------------------------------
(* Bounds of the model *)

\* ticks per length unit: divisible by every element count up to 6
Scale == 2 * 2 * 3 * 5

MaxMeshSize == 2
MaxWidth == 4
MaxHeight == 2
\* add_rect_opening calls explored in one behaviour
MaxOpenings == 2
\* sectors of a ring mesh the caller constructs
MaxQuads == 4
\* inner radius of an AnnulusMesh, in half length units
MaxInner == 2
\* outer radius less inner radius of an AnnulusMesh, in length units
MaxRadial == 4
\* radial depth of an AnnulusMesh given in decimals, in tenths of a length unit
MaxTenths == 12

----------------------------------------------------------------------------
(* Python strings and integers *)

Digits == <<"0", "1", "2", "3", "4", "5", "6", "7", "8", "9">>

\* str(k) for an integer k
RECURSIVE StrNat(_)
StrNat(k) ==
    IF k < 10 THEN <<Digits[k + 1]>>
    ELSE StrNat(k \div 10) \o <<Digits[(k % 10) + 1]>>

Str(k) ==
    IF k < 0 THEN <<"-">> \o StrNat(-k) ELSE StrNat(k)

DigitValue(c) ==
    CHOOSE d \in 0..9 : Digits[d + 1] = c

IsDigit(c) ==
    \E d \in 0..9 : Digits[d + 1] = c

\* the number written by the digits of s, whatever stands between them
RECURSIVE NatOf(_, _)
NatOf(s, acc) ==
    IF s = <<>> THEN acc
    ELSE IF IsDigit(Head(s)) THEN NatOf(Tail(s), 10 * acc + DigitValue(Head(s)))
    ELSE NatOf(Tail(s), acc)

\* whether int(s) succeeds: within the surrounding whitespace, an optional sign
\* followed by digits, with single underscores between digits.  The whitespace
\* is the one among the characters up to U+00FF: space, tab, line feed, vertical
\* tab, form feed, carriage return, next line (U+0085) and no-break space
\* (U+00A0); the decimal digits among these characters are 0 to 9.
IntParses(s) ==
    LET inked == {p \in 1..Len(s) :
                     s[p] \notin {" ", "\t", "\n", "", "\f", "\r", "", " "}}
        first == CHOOSE p \in inked : \A o \in inked : p <= o
        last  == CHOOSE p \in inked : \A o \in inked : p >= o
        text  == IF inked = {} THEN <<>> ELSE SubSeq(s, first, last)
        body  == IF text # <<>> /\ Head(text) \in {"-", "+"} THEN Tail(text) ELSE text
    IN  /\ body # <<>>
        /\ \A p \in 1..Len(body) :
              \/ IsDigit(body[p])
              \/ /\ body[p] = "_"
                 /\ 1 < p /\ p < Len(body)
                 /\ IsDigit(body[p - 1]) /\ IsDigit(body[p + 1])

\* int(s) where it succeeds
IntOf(s) ==
    IF \E p \in 1..Len(s) : s[p] = "-" THEN -NatOf(s, 0) ELSE NatOf(s, 0)

\* name[1:]
Slice1(name) ==
    IF name = <<>> THEN <<>> ELSE Tail(name)

Range(s) ==
    {s[p] : p \in 1..Len(s)}

Min(S) ==
    CHOOSE v \in S : \A w \in S : v <= w

Max(S) ==
    CHOOSE v \in S : \A w \in S : v >= w

\* sorted(set(lst))
RECURSIVE SortSet(_)
SortSet(S) ==
    IF S = {} THEN <<>>
    ELSE <<Min(S)>> \o SortSet(S \ {Min(S)})

SortedSet(lst) ==
    SortSet(Range(lst))

CeilDiv(a, b) ==
    (a + b - 1) \div b

----------------------------------------------------------------------------
(* RectangleMesh: the grid builder of generate() *)

Meshes == {1, 2}

\* ceil(max(1, seg/mesh_size)): the number of elements between two control points
NumDiv(seg, mesh_size) ==
    IF seg <= mesh_size THEN 1 ELSE CeilDiv(seg, mesh_size)

\* the mesh size between two control points: h = (c[j] - c[j-1])/ceil(ny)
StepSize(seg, mesh_size) ==
    seg \div NumDiv(seg, mesh_size)

\* EmitUpTo with < for <=: the grid line on the control point is left out
RECURSIVE EmitUpToStrict(_, _, _, _)
EmitUpToStrict(x, b, limit, out) ==
    IF x < limit THEN EmitUpToStrict(x + b, b, limit, Append(out, x))
    ELSE [x |-> x, out |-> out]

\* while round(x, 10) <= round(limit, 10): emit x; x += b
RECURSIVE EmitUpTo(_, _, _, _)
EmitUpTo(x, b, limit, out) ==
    IF x <= limit THEN EmitUpTo(x + b, b, limit, Append(out, x))
    ELSE [x |-> x, out |-> out]

\* SweepFrom without the step back at a control point: the next segment starts
\* one old step past it
RECURSIVE SweepFromNoStepBack(_, _, _, _, _, _)
SweepFromNoStepBack(control, mesh_size, j, x, b, out) ==
    IF j > Len(control) - 1 THEN out
    ELSE LET seg == control[j + 1] - control[j]
             b2  == StepSize(seg, mesh_size)
             r   == EmitUpTo(x, b2, control[j + 1], out)
         IN  SweepFromNoStepBack(control, mesh_size, j + 1, r.x, b2, r.out)

\* the loop over the control points, j = 1 .. len(control) - 1 (Python indices),
\* carrying the sweep coordinate x and the previous step b
RECURSIVE SweepFrom(_, _, _, _, _, _)
SweepFrom(control, mesh_size, j, x, b, out) ==
    IF j > Len(control) - 1 THEN out
    ELSE LET seg == control[j + 1] - control[j]
             b2  == StepSize(seg, mesh_size)
             x2  == IF j # 1 THEN (x - b) + b2 ELSE x
             r   == EmitUpTo(x2, b2, control[j + 1], out)
         IN  SweepFrom(control, mesh_size, j + 1, r.x, b2, r.out)

\* the coordinates of the grid lines generated along one axis
Sweep(control, mesh_size) ==
    SweepFrom(control, mesh_size, 1, 0, 0, <<>>)

\* local (x, y) to global (X, Y, Z); <<>> where the plane is not recognized
NodeXYZ(plane, origin, x, y) ==
    IF plane = "XY" THEN <<origin[1] + x, origin[2] + y, origin[3] + 0>>
    ELSE IF plane = "YZ" THEN <<origin[1] + 0, origin[2] + y, origin[3] + x>>
    ELSE IF plane = "XZ" THEN <<origin[1] + x, origin[2] + 0, origin[3] + y>>
    ELSE <<>>

\* a node's position in the mesh's local coordinate system; <<>> for an
\* unrecognized plane, where `return x, y` finds x unbound (UnboundLocalError)
node_local_coords(plane, origin, node) ==
    IF plane = "XY" THEN <<node.X - origin[1], node.Y - origin[2]>>
    ELSE IF plane = "YZ" THEN <<node.Z - origin[3], node.Y - origin[2]>>
    ELSE IF plane = "XZ" THEN <<node.X - origin[1], node.Z - origin[3]>>
    ELSE <<>>

NodeName(k) ==
    <<"N">> \o Str(k)

Node3D(name, xyz) ==
    [Name |-> name, X |-> xyz[1], Y |-> xyz[2], Z |-> xyz[3]]

\* the nodes of the grid, numbered row by row: node_num runs 1, 2, ... over the
\* rows ys and, within a row, over the columns xs
GridNodes(c, xs, ys, node_offset) ==
    [k \in {node_offset + n : n \in 1..(Len(xs) * Len(ys))} |->
        LET n   == k - node_offset
            row == ((n - 1) \div Len(xs)) + 1
            col == ((n - 1) % Len(xs)) + 1
        IN  Node3D(NodeName(k), NodeXYZ(c.plane, c.origin, xs[col], ys[row]))]

\* num_cols as counted by `if y == 0: num_cols += 1`, then decremented
NumCols(xs, ys) ==
    (IF 0 \in Range(ys) THEN Len(xs) ELSE 0) - 1

\* num_rows as counted once per row, then decremented
NumRows(ys) ==
    Len(ys) - 1

ElementPrefix(element_type) ==
    IF element_type = "Quad" THEN "Q" ELSE "R"

ElementName(prefix, k) ==
    <<prefix>> \o Str(k)

\* AttachedNodes without the row counter: i_node = n
AttachedNodesNoRowOffset(n, r, num_cols) ==
    LET i_node == n
        j_node == i_node + 1
        m_node == j_node + (num_cols + 1)
        n_node == m_node - 1
    IN  [i |-> i_node, j |-> j_node, m |-> m_node, n |-> n_node]

\* the node numbers (before the offset) attached to the element built with
\* loop variables n and r
AttachedNodes(n, r, num_cols) ==
    LET i_node == n + (r - 1)
        j_node == i_node + 1
        m_node == j_node + (num_cols + 1)
        n_node == m_node - 1
    IN  [i |-> i_node, j |-> j_node, m |-> m_node, n |-> n_node]

\* for i in range(1, num_cols*num_rows + 1), carrying r and n
RECURSIVE ElementLoop(_, _, _, _, _, _, _, _)
ElementLoop(c, nds, node_offset, element_offset, num_cols, last, i, st) ==
    IF i > last THEN st.acc
    ELSE LET a  == AttachedNodes(st.n, st.r, num_cols)
             el == [Name   |-> ElementName(ElementPrefix(c.element_type), i + element_offset),
                    i_node |-> nds[a.i + node_offset],
                    j_node |-> nds[a.j + node_offset],
                    m_node |-> nds[a.m + node_offset],
                    n_node |-> nds[a.n + node_offset],
                    t |-> c.t, E |-> c.E, nu |-> c.nu,
                    kx_mod |-> c.kx_mod, ky_mod |-> c.ky_mod,
                    type   |-> c.element_type]
             r2 == IF i % num_cols = 0 THEN st.r + 1 ELSE st.r
         IN  ElementLoop(c, nds, node_offset, element_offset, num_cols, last, i + 1,
                         [r |-> r2, n |-> st.n + 1,
                          acc |-> (i + element_offset) :> el @@ st.acc])

GridElements(c, nds, node_offset, element_offset, num_cols, num_rows) ==
    ElementLoop(c, nds, node_offset, element_offset, num_cols, num_cols * num_rows, 1,
                [r |-> 1, n |-> 1, acc |-> <<>>])

----------------------------------------------------------------------------
(* RectangleMesh: openings and generate() *)

RectOpening(x_left, y_bott, width, height) ==
    [x_left |-> x_left, y_bott |-> y_bott, width |-> width, height |-> height]

\* the test that marks a node for deletion: strictly inside the opening
NodeInOpening(xy, opng) ==
    /\ xy[1] > opng.x_left
    /\ xy[1] < opng.x_left + opng.width
    /\ xy[2] > opng.y_bott
    /\ xy[2] < opng.y_bott + opng.height

\* ElementInOpening with strict bounds: an element flush with the opening is kept
ElementInOpeningStrict(c, el, opng) ==
    LET lt == node_local_coords(c.plane, c.origin, el.n_node)
        rb == node_local_coords(c.plane, c.origin, el.j_node)
    IN  /\ opng.y_bott + opng.height > lt[2]
        /\ opng.y_bott < rb[2]
        /\ opng.x_left < lt[1]
        /\ opng.x_left + opng.width > rb[1]

\* the test that marks an element for deletion: (left, top) are the local
\* coordinates of its n_node, (right, bott) those of its j_node
ElementInOpening(c, el, opng) ==
    LET lt == node_local_coords(c.plane, c.origin, el.n_node)
        rb == node_local_coords(c.plane, c.origin, el.j_node)
    IN  /\ opng.y_bott + opng.height >= lt[2]
        /\ opng.y_bott <= rb[2]
        /\ opng.x_left <= lt[1]
        /\ opng.x_left + opng.width >= rb[1]

NodeDelList(c, nds, opns) ==
    {k \in DOMAIN nds :
        \E o \in DOMAIN opns :
            NodeInOpening(node_local_coords(c.plane, c.origin, nds[k]), opns[o])}

ElementDelList(c, els, opns) ==
    {k \in DOMAIN els : \E o \in DOMAIN opns : ElementInOpening(c, els[k], opns[o])}

Remove(dict, keys) ==
    [k \in (DOMAIN dict) \ keys |-> dict[k]]

\* whether some element has the node as its i, j, m or n node
Referenced(node, els) ==
    \E e \in DOMAIN els :
        \/ node = els[e].i_node
        \/ node = els[e].j_node
        \/ node = els[e].m_node
        \/ node = els[e].n_node

\* OrphanList with the sweep finding nothing to delete
OrphanListUnswept(nds, els) ==
    {}

\* the nodes the orphan sweep marks for deletion
OrphanList(nds, els) ==
    {k \in DOMAIN nds : ~Referenced(nds[k], els)}

\* generate() from the statement after the control points were appended:
\* the registries it leaves and how it ends
GenerateBody(c, x_list, y_list, opns, old_nodes, old_elements) ==
    LET x_control == SortedSet(x_list)
        y_control == SortedSet(y_list)
    IN
    IF ~IntParses(Slice1(c.start_node)) \/ ~IntParses(Slice1(c.start_element))
    THEN [nodes |-> old_nodes, elements |-> old_elements, xs |-> <<>>, ys |-> <<>>,
          node_del_list |-> {}, element_del_list |-> {}, status |-> "ValueError"]
    ELSE IF c.element_type \notin {"Quad", "Rect"}
    THEN [nodes |-> old_nodes, elements |-> old_elements, xs |-> <<>>, ys |-> <<>>,
          node_del_list |-> {}, element_del_list |-> {}, status |-> "Exception"]
    ELSE IF c.mesh_size = 0
    THEN [nodes |-> old_nodes, elements |-> old_elements, xs |-> <<>>, ys |-> <<>>,
          node_del_list |-> {}, element_del_list |-> {}, status |-> "ZeroDivisionError"]
    ELSE
    LET node_offset    == IntOf(Slice1(c.start_node)) - 1
        element_offset == IntOf(Slice1(c.start_element)) - 1
        xs == Sweep(x_control, c.mesh_size)
        ys == Sweep(y_control, c.mesh_size)
    IN
    IF c.plane \notin {"XY", "YZ", "XZ"} /\ Len(xs) * Len(ys) > 0
    THEN [nodes |-> old_nodes, elements |-> old_elements, xs |-> <<>>, ys |-> <<>>,
          node_del_list |-> {}, element_del_list |-> {}, status |-> "Exception"]
    ELSE
    LET made     == GridNodes(c, xs, ys, node_offset)
        nodes1   == made @@ old_nodes
        created  == GridElements(c, nodes1, node_offset, element_offset,
                                 NumCols(xs, ys), NumRows(ys))
        elems1   == created @@ old_elements
        node_del == NodeDelList(c, nodes1, opns)
        elem_del == ElementDelList(c, elems1, opns)
        elems2   == Remove(elems1, elem_del)
        nodes2   == Remove(nodes1, node_del)
        nodes3   == Remove(nodes2, OrphanList(nodes2, elems2))
    IN  [nodes |-> nodes3, elements |-> elems2, xs |-> xs, ys |-> ys,
         node_del_list |-> node_del, element_del_list |-> elem_del,
         status |-> IF DOMAIN nodes3 = {} \/ DOMAIN elems2 = {}
                    THEN "IndexError" ELSE "generated"]

----------------------------------------------------------------------------
(* RectangleMesh: the state machine *)

\* the two default list objects every construction without x_control / y_control
\* arguments binds (the defaults `x_control=[]`, `y_control=[]` of __init__)
DefaultX == "x_control=[]"
DefaultY == "y_control=[]"

XControl(m) == heap[xref[m]]
YControl(m) == heap[yref[m]]

StartNames == {<<"N", "1">>, <<"N", "7">>, <<"N", "1", "2">>}
StartElements == {<<"Q", "1">>, <<"Q", "5">>}
Planes == {"XY", "YZ", "XZ"}
ElementTypes == {"Quad", "Rect"}
Origin == <<1 * Scale, 2 * Scale, 3 * Scale>>

\* every constructor argument the model draws
AllConfigs ==
    [mesh_size : {Scale * s : s \in 1..MaxMeshSize},
     width : {Scale * w : w \in 1..MaxWidth},
     height : {Scale * h : h \in 1..MaxHeight},
     origin : {Origin},
     plane : Planes,
     start_node : StartNames,
     start_element : StartElements,
     element_type : ElementTypes,
     t : {1}, E : {1}, nu : {3}, kx_mod : {2}, ky_mod : {3}]

\* the constructor arguments drawn where openings are explored
OpeningConfigs ==
    {c \in AllConfigs :
        /\ c.width = Scale * MaxWidth
        /\ c.height = Scale * MaxHeight
        /\ c.start_node = <<"N", "1">>
        /\ c.start_element = <<"Q", "1">>
        /\ c.element_type = "Quad"
        /\ c.plane = "XY"}

\* RectangleMesh.__init__, twice, without x_control and y_control arguments
InitMeshes(configs) ==
    /\ cfg \in configs
    /\ heap = [l \in {DefaultX, DefaultY} |-> <<>>]
    /\ xref = [m \in Meshes |-> DefaultX]
    /\ yref = [m \in Meshes |-> DefaultY]
    /\ openings = [m \in Meshes |-> <<>>]
    /\ nodes = [m \in Meshes |-> <<>>]
    /\ elements = [m \in Meshes |-> <<>>]
    /\ status = [m \in Meshes |-> "new"]
    /\ grid = [m \in Meshes |-> [xs |-> <<>>, ys |-> <<>>,
                                node_del_list |-> {}, element_del_list |-> {}]]
    /\ calls = 0
    /\ ring = [status |-> "none"]
    /\ sweep = [status |-> "none"]
    /\ solved = [m \in Meshes |-> <<>>]
    /\ answer = [status |-> "none"]

\* the k-th opening declared is given the k-th name: names are unique, as the
\* docstring of add_rect_opening asks
OpeningNames == <<"A", "B", "C", "D">>
\* <<x_left, width>> and <<y_bott, height>> of the openings drawn, in length units:
\* interior, overlapping, adjacent, reaching and crossing the mesh boundary
OpeningXs == {<<-3, 5>>, <<-2, 4>>, <<1, 1>>, <<2, 2>>, <<0, 4>>}
OpeningYs == {<<-1, 2>>, <<0, 2>>}

add_rect_opening(m, name, x_left, y_bott, width, height) ==
    /\ calls' = calls + 1
    /\ openings' = [openings EXCEPT
                      ![m] = (name :> RectOpening(x_left, y_bott, width, height)) @@ @]
    /\ heap' = [heap EXCEPT ![xref[m]] = @ \o <<x_left, x_left + width>>,
                             ![yref[m]] = @ \o <<y_bott, y_bott + height>>]
    /\ UNCHANGED <<cfg, xref, yref, nodes, elements, status, grid, ring, sweep, solved, answer>>

\* openings are declared on mesh 1; mesh 2 is the other instance
AddOpening ==
    /\ calls < MaxOpenings
    /\ calls < Len(OpeningNames)
    /\ \E ox \in OpeningXs, oy \in OpeningYs :
          add_rect_opening(1, OpeningNames[calls + 1],
                           Scale * ox[1], Scale * oy[1], Scale * ox[2], Scale * oy[2])

\* generate(), applied to a mesh that was not generated before
generate(m) ==
    /\ status[m] = "new"
    /\ LET x_list == XControl(m) \o <<0, cfg.width>>
           y_list == YControl(m) \o <<0, cfg.height>>
           out    == GenerateBody(cfg, x_list, y_list, openings[m], nodes[m], elements[m])
       IN  /\ heap' = [heap EXCEPT ![xref[m]] = x_list, ![yref[m]] = y_list]
           /\ nodes' = [nodes EXCEPT ![m] = out.nodes]
           /\ elements' = [elements EXCEPT ![m] = out.elements]
           /\ status' = [status EXCEPT ![m] = out.status]
           /\ grid' = [grid EXCEPT ![m] = [xs |-> out.xs, ys |-> out.ys,
                                           node_del_list |-> out.node_del_list,
                                           element_del_list |-> out.element_del_list]]
    /\ UNCHANGED <<cfg, xref, yref, openings, calls, ring, sweep, solved, answer>>

Generate ==
    \E m \in Meshes : generate(m)

NextRect ==
    \/ AddOpening
    \/ Generate

\* meshes with openings
SpecRect ==
    InitMeshes(OpeningConfigs) /\ [][NextRect]_vars

\* meshes without openings, over every constructor argument
SpecGrid ==
    InitMeshes(AllConfigs) /\ [][Generate]_vars

\* start names as a caller may write them: well formed with the usual and with
\* another letter, and malformed in each way, with the ways int() lets pass
WrittenNames ==
    {<<"N", "1">>, <<"A", "5">>, <<"N", "0">>, <<"N", "-", "3">>, <<"1", "2">>,
     <<"N", "N", "4">>, <<"N">>, <<"N", " ", "5">>, <<"N", "1", "_", "0">>,
     <<"N", "_", "1">>, <<"N", "", "5">>}

\* the constructor arguments drawn where the start names are explored
NameConfigs ==
    [mesh_size : {Scale * s : s \in 1..MaxMeshSize},
     width : {Scale, 2 * Scale},
     height : {Scale},
     origin : {Origin},
     plane : Planes,
     start_node : WrittenNames,
     start_element : WrittenNames,
     element_type : ElementTypes,
     t : {1}, E : {1}, nu : {3}, kx_mod : {2}, ky_mod : {3}]

\* meshes without openings, over the start names
SpecNames ==
    InitMeshes(NameConfigs) /\ [][Generate]_vars

----------------------------------------------------------------------------
(* Mesh: the result queries max_shear, min_shear, max_moment, min_moment *)

\* the load combinations of the solved model, in the order of the LoadCombos
\* dictionary of an element
ComboNames == <<"Combo 1", "Combo 2">>

\* element.width() and element.height() of a rectangular element: the lengths
\* of its sides i-j and i-n, which run along coordinate axes
SideLength(a, b) ==
    Max({a.X - b.X, b.X - a.X}) + Max({a.Y - b.Y, b.Y - a.Y}) + Max({a.Z - b.Z, b.Z - a.Z})

ElementWidth(element) ==
    SideLength(element.i_node, element.j_node)

ElementHeight(element) ==
    SideLength(element.i_node, element.n_node)

\* the corners an element is evaluated at: local (x, y) of a Rect in ticks,
\* natural (r, s) of a Quad; <<>> where neither branch binds them
ElementCorners(element) ==
    IF element.type = "Rect"
    THEN [xi |-> 0, yi |-> 0,
          xj |-> ElementWidth(element), yj |-> 0,
          xm |-> ElementWidth(element), ym |-> ElementHeight(element),
          xn |-> 0, yn |-> ElementHeight(element)]
    ELSE IF element.type = "Quad"
    THEN [xi |-> -1, yi |-> -1,
          xj |-> 1, yj |-> -1,
          xm |-> 1, ym |-> 1,
          xn |-> -1, yn |-> 1]
    ELSE <<>>

\* SamplePoints with the last point at ((xi + xj)/2, (yi + yj)/2), the middle
\* of the side i-j
SamplePointsMidSide(element) ==
    LET c == ElementCorners(element)
    IN  <<<<2 * c.xi, 2 * c.yi>>, <<2 * c.xj, 2 * c.yj>>, <<2 * c.xm, 2 * c.ym>>,
          <<2 * c.xn, 2 * c.yn>>, <<c.xi + c.xj, c.yi + c.yj>>>>

\* the points a query evaluates an element at, in its order; both coordinates
\* are kept doubled, so that (xi + xj)/2 and (yi + yn)/2 are exact
SamplePoints(element) ==
    LET c == ElementCorners(element)
    IN  <<<<2 * c.xi, 2 * c.yi>>, <<2 * c.xj, 2 * c.yj>>, <<2 * c.xm, 2 * c.ym>>,
          <<2 * c.xn, 2 * c.yn>>, <<c.xi + c.xj, c.yi + c.yn>>>>

\* element.shear(x, y, combo)[i, 0] and element.moment(x, y, combo)[i, 0], read
\* from the results of the solved element
ElementShear(solution, point, combo, i) ==
    solution.shear[combo][point][i + 1]

ElementMoment(solution, point, combo, i) ==
    solution.moment[combo][point][i + 1]

\* the values of one element and load combination, one per evaluation point
ShearValues(element, solution, combo, i) ==
    {ElementShear(solution, SamplePoints(element)[p], combo, i) :
        p \in 1..Len(SamplePoints(element))}

MomentValues(element, solution, combo, i) ==
    {ElementMoment(solution, SamplePoints(element)[p], combo, i) :
        p \in 1..Len(SamplePoints(element))}

\* None is <<>>, a value or a combination name v is <<v>>
RECURSIVE MaxShearScan(_, _, _, _, _, _, _, _)
MaxShearScan(els, sol, keys, e, k, i, combo, Q_max) ==
    IF e > Len(keys) THEN Q_max
    ELSE IF k > Len(sol[keys[e]].LoadCombos)
    THEN MaxShearScan(els, sol, keys, e + 1, 1, i, combo, Q_max)
    ELSE LET name      == sol[keys[e]].LoadCombos[k]
             Q_element == Max(ShearValues(els[keys[e]], sol[keys[e]], name, i))
         IN  IF (combo = <<>> \/ <<name>> = combo) /\ (Q_max = <<>> \/ Q_max[1] < Q_element)
             THEN MaxShearScan(els, sol, keys, e, k + 1, i, combo, <<Q_element>>)
             ELSE MaxShearScan(els, sol, keys, e, k + 1, i, combo, Q_max)

max_shear(els, sol, direction, combo) ==
    IF direction = "Qx"
    THEN [status |-> "returned",
          value |-> MaxShearScan(els, sol, SortSet(DOMAIN els), 1, 1, 0, combo, <<>>)]
    ELSE IF direction = "Qy"
    THEN [status |-> "returned",
          value |-> MaxShearScan(els, sol, SortSet(DOMAIN els), 1, 1, 1, combo, <<>>)]
    ELSE [status |-> "Exception", value |-> <<>>]

RECURSIVE MinShearScan(_, _, _, _, _, _, _, _)
MinShearScan(els, sol, keys, e, k, i, combo, Q_min) ==
    IF e > Len(keys) THEN Q_min
    ELSE IF k > Len(sol[keys[e]].LoadCombos)
    THEN MinShearScan(els, sol, keys, e + 1, 1, i, combo, Q_min)
    ELSE LET name      == sol[keys[e]].LoadCombos[k]
             Q_element == Min(ShearValues(els[keys[e]], sol[keys[e]], name, i))
         IN  IF (combo = <<>> \/ <<name>> = combo) /\ (Q_min = <<>> \/ Q_min[1] > Q_element)
             THEN MinShearScan(els, sol, keys, e, k + 1, i, combo, <<Q_element>>)
             ELSE MinShearScan(els, sol, keys, e, k + 1, i, combo, Q_min)

min_shear(els, sol, direction, combo) ==
    IF direction = "Qx"
    THEN [status |-> "returned",
          value |-> MinShearScan(els, sol, SortSet(DOMAIN els), 1, 1, 0, combo, <<>>)]
    ELSE IF direction = "Qy"
    THEN [status |-> "returned",
          value |-> MinShearScan(els, sol, SortSet(DOMAIN els), 1, 1, 1, combo, <<>>)]
    ELSE [status |-> "Exception", value |-> <<>>]

RECURSIVE MaxMomentScan(_, _, _, _, _, _, _, _)
MaxMomentScan(els, sol, keys, e, k, i, combo, M_max) ==
    IF e > Len(keys) THEN M_max
    ELSE IF k > Len(sol[keys[e]].LoadCombos)
    THEN MaxMomentScan(els, sol, keys, e + 1, 1, i, combo, M_max)
    ELSE LET name      == sol[keys[e]].LoadCombos[k]
             M_element == Max(MomentValues(els[keys[e]], sol[keys[e]], name, i))
         IN  IF (combo = <<>> \/ <<name>> = combo) /\ (M_max = <<>> \/ M_max[1] < M_element)
             THEN MaxMomentScan(els, sol, keys, e, k + 1, i, combo, <<M_element>>)
             ELSE MaxMomentScan(els, sol, keys, e, k + 1, i, combo, M_max)

max_moment(els, sol, direction, combo) ==
    IF direction = "Mx"
    THEN [status |-> "returned",
          value |-> MaxMomentScan(els, sol, SortSet(DOMAIN els), 1, 1, 0, combo, <<>>)]
    ELSE IF direction = "My"
    THEN [status |-> "returned",
          value |-> MaxMomentScan(els, sol, SortSet(DOMAIN els), 1, 1, 1, combo, <<>>)]
    ELSE IF direction = "Mxy"
    THEN [status |-> "returned",
          value |-> MaxMomentScan(els, sol, SortSet(DOMAIN els), 1, 1, 2, combo, <<>>)]
    ELSE [status |-> "Exception", value |-> <<>>]

RECURSIVE MinMomentScan(_, _, _, _, _, _, _, _)
MinMomentScan(els, sol, keys, e, k, i, combo, M_min) ==
    IF e > Len(keys) THEN M_min
    ELSE IF k > Len(sol[keys[e]].LoadCombos)
    THEN MinMomentScan(els, sol, keys, e + 1, 1, i, combo, M_min)
    ELSE LET name      == sol[keys[e]].LoadCombos[k]
             M_element == Min(MomentValues(els[keys[e]], sol[keys[e]], name, i))
         IN  IF (combo = <<>> \/ <<name>> = combo) /\ (M_min = <<>> \/ M_min[1] > M_element)
             THEN MinMomentScan(els, sol, keys, e, k + 1, i, combo, <<M_element>>)
             ELSE MinMomentScan(els, sol, keys, e, k + 1, i, combo, M_min)

min_moment(els, sol, direction, combo) ==
    IF direction = "Mx"
    THEN [status |-> "returned",
          value |-> MinMomentScan(els, sol, SortSet(DOMAIN els), 1, 1, 0, combo, <<>>)]
    ELSE IF direction = "My"
    THEN [status |-> "returned",
          value |-> MinMomentScan(els, sol, SortSet(DOMAIN els), 1, 1, 1, combo, <<>>)]
    ELSE IF direction = "Mxy"
    THEN [status |-> "returned",
          value |-> MinMomentScan(els, sol, SortSet(DOMAIN els), 1, 1, 2, combo, <<>>)]
    ELSE [status |-> "Exception", value |-> <<>>]

\* the results the solver leaves in the elements: a field that varies with
\* element, load combination, point and component, with one value `peak` set
\* apart at position `at`; the element `lone`, if any, only has the first
\* load combination
FieldValue(key, c, p, i, at, peak) ==
    IF <<key, c, p, i>> = at THEN peak
    ELSE ((3 * key + 5 * c + 2 * p + 3 * i) % 7) - 3

\* the points the results of an element are tabulated at: its corners, the
\* middles of its sides and its centre, numbered row by row (doubled coordinates)
FieldPoints(element) ==
    LET c  == ElementCorners(element)
        xs == <<2 * c.xi, c.xi + c.xj, 2 * c.xj>>
        ys == <<2 * c.yi, c.yi + c.yn, 2 * c.yn>>
    IN  [p \in 1..9 |-> <<xs[((p - 1) % 3) + 1], ys[((p - 1) \div 3) + 1]>>]

Solution(element, key, lone, at, peak) ==
    LET pts    == FieldPoints(element)
        combos == IF key = lone THEN SubSeq(ComboNames, 1, 1) ELSE ComboNames
    IN  [LoadCombos |-> combos,
         shear  |-> [name \in Range(combos) |->
                       LET c == CHOOSE c \in 1..Len(combos) : combos[c] = name
                       IN  [pt \in Range(pts) |->
                              LET p == CHOOSE p \in 1..Len(pts) : pts[p] = pt
                              IN  <<FieldValue(key, c, p, 0, at, peak),
                                    FieldValue(key, c, p, 1, at, peak)>>]],
         moment |-> [name \in Range(combos) |->
                       LET c == CHOOSE c \in 1..Len(combos) : combos[c] = name
                       IN  [pt \in Range(pts) |->
                              LET p == CHOOSE p \in 1..Len(pts) : pts[p] = pt
                              IN  <<FieldValue(key, c, p, 2, at, peak),
                                    FieldValue(key, c, p, 3, at, peak),
                                    FieldValue(key, c, p, 4, at, peak)>>]]]

Peaks == {-9, 9}
\* where the value set apart may lie: the middle of the side i-j, the centre
PeakPoints == {2, 5}
\* and in which component: Qy, Mxy
PeakComponents == {1, 4}

\* the model the meshes belong to is analysed: every element of every
\* generated mesh now holds its results
Analyze ==
    /\ \E m \in Meshes : status[m] = "generated"
    /\ \A m \in Meshes : solved[m] = <<>>
    /\ \E lone \in {0, Max(UNION {DOMAIN elements[m] : m \in Meshes})},
          at \in (UNION {DOMAIN elements[m] : m \in Meshes})
                    \X (1..Len(ComboNames)) \X PeakPoints \X PeakComponents,
          peak \in Peaks :
             solved' = [m \in Meshes |->
                          IF status[m] = "generated"
                          THEN [key \in DOMAIN elements[m] |->
                                  Solution(elements[m][key], key, lone, at, peak)]
                          ELSE <<>>]
    /\ UNCHANGED <<cfg, heap, xref, yref, openings, nodes, elements, status, grid,
                   calls, answer, ring, sweep>>

Directions == {"Qx", "Qy", "Mx", "My", "Mxy", "Qz"}
\* combo: None, a combination of the model, a combination no element has
ComboArguments == {<<>>, <<"Combo 2">>, <<"Combo 3">>}

\* the mesh is part of a solved model: every element of mesh m holds results
\* (a mesh without elements does)
Solved(m) ==
    /\ \E k \in Meshes : solved[k] # <<>>
    /\ status[m] \in {"new", "generated"}
    /\ DOMAIN solved[m] = DOMAIN elements[m]

\* one query is explored in one behaviour
Asked(m, query, direction, combo, out) ==
    /\ answer.status = "none"
    /\ answer' = [mesh |-> m, query |-> query, direction |-> direction, combo |-> combo,
                  status |-> out.status, value |-> out.value]
    /\ UNCHANGED <<cfg, heap, xref, yref, openings, nodes, elements, status, grid,
                   calls, solved, ring, sweep>>

MaxShear ==
    \E m \in Meshes, direction \in Directions, combo \in ComboArguments :
        /\ Solved(m)
        /\ Asked(m, "max_shear", direction, combo,
                 max_shear(elements[m], solved[m], direction, combo))

MinShear ==
    \E m \in Meshes, direction \in Directions, combo \in ComboArguments :
        /\ Solved(m)
        /\ Asked(m, "min_shear", direction, combo,
                 min_shear(elements[m], solved[m], direction, combo))

MaxMoment ==
    \E m \in Meshes, direction \in Directions, combo \in ComboArguments :
        /\ Solved(m)
        /\ Asked(m, "max_moment", direction, combo,
                 max_moment(elements[m], solved[m], direction, combo))

MinMoment ==
    \E m \in Meshes, direction \in Directions, combo \in ComboArguments :
        /\ Solved(m)
        /\ Asked(m, "min_moment", direction, combo,
                 min_moment(elements[m], solved[m], direction, combo))

\* the constructor arguments drawn where results are queried: one row of two
\* elements of either type
ResultConfigs ==
    {c \in AllConfigs :
        /\ c.mesh_size = Scale
        /\ c.width = 2 * Scale
        /\ c.height = Scale
        /\ c.start_node = <<"N", "1">>
        /\ c.start_element = <<"Q", "1">>
        /\ c.plane = "XY"}

NextResults ==
    \/ Generate
    \/ Analyze
    \/ MaxShear
    \/ MinShear
    \/ MaxMoment
    \/ MinMoment

\* a generated mesh, solved and queried
SpecResults ==
    InitMeshes(ResultConfigs) /\ [][NextResults]_vars

----------------------------------------------------------------------------
(* Ring meshes: AnnulusRingMesh, AnnulusTransRingMesh, CylinderRingMesh *)

(* A coordinate of a ring node is off + r*f(a): off and r in ticks, f one of   *)
(* cos, sin or zero, and a the angle as the fraction <<p, q>> of a full turn,  *)
(* in lowest terms.  The code's angles are multiples of 2*pi/n below 2*pi,     *)
(* so two nodes of rings about the same axis lie at the same place exactly     *)
(* when their coordinates are equal as such terms.                             *)

RECURSIVE GCD(_, _)
GCD(a, b) ==
    IF b = 0 THEN a ELSE GCD(b, a % b)

\* the angle p/q of a turn
Turn(p, q) ==
    IF p = 0 THEN <<0, 1>> ELSE <<p \div GCD(p, q), q \div GCD(p, q)>>

\* the sum of two angles
AddTurn(a, b) ==
    Turn(a[1] * b[2] + b[1] * a[2], a[2] * b[2])

\* theta*k for theta = 2*pi/n
Theta(n, k) ==
    Turn(k, n)

Fixed(off) ==
    [off |-> off, r |-> 0, f |-> "zero", a |-> <<0, 1>>]

\* off + r*f(a); at radius 0 the angle does not matter
Polar(off, r, f, a) ==
    IF r = 0 THEN Fixed(off) ELSE [off |-> off, r |-> r, f |-> f, a |-> a]

\* the global coordinates of the point at radius r and angle a about the axis
\* through origin, lifted by `lift` along the axis; <<>> for an unrecognized axis
RevolveXYZ(axis, origin, r, a, lift) ==
    IF axis = "Y"
    THEN <<Polar(origin[1], r, "cos", a), Fixed(origin[2] + lift), Polar(origin[3], r, "sin", a)>>
    ELSE IF axis = "X"
    THEN <<Fixed(origin[1] + lift), Polar(origin[2], r, "sin", a), Polar(origin[3], r, "cos", a)>>
    ELSE IF axis = "Z"
    THEN <<Polar(origin[1], r, "sin", a), Polar(origin[2], r, "cos", a), Fixed(origin[3] + lift)>>
    ELSE <<>>

\* a node created by ring mesh object `owner`
RingNode(k, xyz, owner) ==
    [Name |-> NodeName(k), X |-> xyz[1], Y |-> xyz[2], Z |-> xyz[3], owner |-> owner]

Quad(name, nds, a, node_offset, p, type) ==
    [Name   |-> name,
     i_node |-> nds[a.i + node_offset],
     j_node |-> nds[a.j + node_offset],
     m_node |-> nds[a.m + node_offset],
     n_node |-> nds[a.n + node_offset],
     t |-> p.t, E |-> p.E, nu |-> p.nu, kx_mod |-> p.kx_mod, ky_mod |-> p.ky_mod,
     type   |-> type]

Failed(exception) ==
    [nodes |-> <<>>, elements |-> <<>>, status |-> exception]

\* RingAttached with the corners taken from the inner circle first
RingAttachedInnerFirst(i, n) ==
    [i |-> i,
     n |-> i + n,
     j |-> IF i # n THEN i + 1 ELSE 1,
     m |-> IF i # n THEN i + 1 + n ELSE 1 + n]

\* the node numbers of element i of a ring of n sectors (AnnulusRingMesh and
\* CylinderRingMesh assign them alike)
RingAttached(i, n) ==
    [n |-> i,
     i |-> i + n,
     m |-> IF i # n THEN i + 1 ELSE 1,
     j |-> IF i # n THEN i + 1 + n ELSE 1 + n]

\* the nodes of an AnnulusRingMesh: n at r1, then n at r2
AnnulusRingNodes(p, node_offset, owner) ==
    [k \in {i + node_offset : i \in 1..(2 * p.n)} |->
        LET i == k - node_offset
        IN  IF i <= p.n
            THEN RingNode(k, RevolveXYZ(p.axis, p.origin, p.r1, Theta(p.n, i - 1), 0), owner)
            ELSE RingNode(k, RevolveXYZ(p.axis, p.origin, p.r2, Theta(p.n, (i - p.n) - 1), 0),
                          owner)]

\* AnnulusRingMesh._generate
AnnulusRingGenerate(p, owner) ==
    IF p.n = 0 THEN Failed("ZeroDivisionError")
    ELSE IF ~IntParses(Slice1(p.start_node)) \/ ~IntParses(Slice1(p.start_element))
    THEN Failed("ValueError")
    ELSE IF p.axis \notin {"X", "Y", "Z"} THEN Failed("Exception")
    ELSE
    LET node_offset    == IntOf(Slice1(p.start_node)) - 1
        element_offset == IntOf(Slice1(p.start_element)) - 1
        nds == AnnulusRingNodes(p, node_offset, owner)
    IN  [nodes    |-> nds,
         elements |-> [k \in {i + element_offset : i \in 1..p.n} |->
                          Quad(ElementName("Q", k), nds,
                               RingAttached(k - element_offset, p.n), node_offset, p, "Quad")],
         status   |-> "generated"]

\* the angle of centre node i (n < i <= 3n) of a transition ring: theta2 for the
\* first, then the previous node's angle plus theta2 or 2*theta2
RECURSIVE TransCentreAngle(_, _)
TransCentreAngle(i, n) ==
    IF (i - n) = 1 THEN Theta(3 * n, 1)
    ELSE IF (i - n) % 2 = 0 THEN AddTurn(TransCentreAngle(i - 1, n), Theta(3 * n, 1))
    ELSE AddTurn(TransCentreAngle(i - 1, n), Theta(3 * n, 2))

\* AnnulusTransRingNodes with the centre circle ending at node 2n
AnnulusTransRingNodesShortCentre(p, node_offset, owner) ==
    [k \in {i + node_offset : i \in 1..(6 * p.n)} |->
        LET i == k - node_offset
            n == p.n
        IN  IF i <= n
            THEN RingNode(k, RevolveXYZ(p.axis, p.origin, p.r1, Theta(n, i - 1), 0), owner)
            ELSE IF i <= 2 * n
            THEN RingNode(k, RevolveXYZ(p.axis, p.origin, p.r2, TransCentreAngle(i, n), 0), owner)
            ELSE RingNode(k, RevolveXYZ(p.axis, p.origin, p.r3,
                                        Theta(3 * n, (i - 2 * n) - 1), 0), owner)]

\* the nodes of an AnnulusTransRingMesh: for i in range(1, 6*n + 1)
AnnulusTransRingNodes(p, node_offset, owner) ==
    [k \in {i + node_offset : i \in 1..(6 * p.n)} |->
        LET i == k - node_offset
            n == p.n
        IN  IF i <= n
            THEN RingNode(k, RevolveXYZ(p.axis, p.origin, p.r1, Theta(n, i - 1), 0), owner)
            ELSE IF i <= 3 * n
            THEN RingNode(k, RevolveXYZ(p.axis, p.origin, p.r2, TransCentreAngle(i, n), 0), owner)
            ELSE RingNode(k, RevolveXYZ(p.axis, p.origin, p.r3,
                                        IF (i - 3 * n) = 1 THEN Turn(0, 1)
                                        ELSE Theta(3 * n, (i - 3 * n) - 1), 0), owner)]

\* TransAttached without the wrap-around of the last inner sector
TransAttachedNoWrap(i, n) ==
    IF i <= n
    THEN [n |-> i,
          j |-> 2 * i + n,
          i |-> 2 * i + n - 1,
          m |-> i + 1]
    ELSE IF (i - n) % 3 = 1
    THEN [n |-> 1 + (i - (n + 1)) \div 3,
          m |-> i - (i - (n + 1)) \div 3,
          j |-> i + 2 * n + 1,
          i |-> i + 2 * n]
    ELSE IF (i - n) % 3 = 2
    THEN [n |-> i - 1 - (i - (n + 1)) \div 3,
          m |-> i - (i - (n + 1)) \div 3,
          j |-> i + 2 * n + 1,
          i |-> i + 2 * n]
    ELSE [n |-> i - 1 - (i - (n + 1)) \div 3,
          i |-> i + 2 * n,
          m |-> IF i # 4 * n THEN 2 + (i - (n + 1)) \div 3 ELSE 1,
          j |-> IF i # 4 * n THEN i + 2 * n + 1 ELSE 1 + 3 * n]

\* the node numbers of element i of a transition ring of n inner sectors
TransAttached(i, n) ==
    IF i <= n
    THEN [n |-> i,
          j |-> 2 * i + n,
          i |-> 2 * i + n - 1,
          m |-> IF i # n THEN i + 1 ELSE 1]
    ELSE IF (i - n) % 3 = 1
    THEN [n |-> 1 + (i - (n + 1)) \div 3,
          m |-> i - (i - (n + 1)) \div 3,
          j |-> i + 2 * n + 1,
          i |-> i + 2 * n]
    ELSE IF (i - n) % 3 = 2
    THEN [n |-> i - 1 - (i - (n + 1)) \div 3,
          m |-> i - (i - (n + 1)) \div 3,
          j |-> i + 2 * n + 1,
          i |-> i + 2 * n]
    ELSE [n |-> i - 1 - (i - (n + 1)) \div 3,
          i |-> i + 2 * n,
          m |-> IF i # 4 * n THEN 2 + (i - (n + 1)) \div 3 ELSE 1,
          j |-> IF i # 4 * n THEN i + 2 * n + 1 ELSE 1 + 3 * n]

\* AnnulusTransRingMesh._generate
AnnulusTransRingGenerate(p, owner) ==
    IF p.n = 0 THEN Failed("ZeroDivisionError")
    ELSE IF ~IntParses(Slice1(p.start_node)) \/ ~IntParses(Slice1(p.start_element))
    THEN Failed("ValueError")
    ELSE IF p.axis \notin {"X", "Y", "Z"} THEN Failed("Exception")
    ELSE
    LET node_offset    == IntOf(Slice1(p.start_node)) - 1
        element_offset == IntOf(Slice1(p.start_element)) - 1
        nds == AnnulusTransRingNodes(p, node_offset, owner)
    IN  [nodes    |-> nds,
         elements |-> [k \in {i + element_offset : i \in 1..(4 * p.n)} |->
                          Quad(ElementName("Q", k), nds,
                               TransAttached(k - element_offset, p.n), node_offset, p, "Quad")],
         status   |-> "generated"]

\* the nodes of a CylinderRingMesh: n at the bottom, then n at the top
CylinderRingNodes(p, node_offset, owner) ==
    [k \in {i + node_offset : i \in 1..(2 * p.n)} |->
        LET i == k - node_offset
        IN  IF i <= p.n
            THEN RingNode(k, RevolveXYZ(p.axis, p.origin, p.radius, Theta(p.n, i - 1), 0), owner)
            ELSE RingNode(k, RevolveXYZ(p.axis, p.origin, p.radius, Theta(p.n, (i - p.n) - 1),
                                        p.height), owner)]

\* CylinderRingMesh._generate
CylinderRingGenerate(p, owner) ==
    IF p.n = 0 THEN Failed("ZeroDivisionError")
    ELSE IF ~IntParses(Slice1(p.start_node)) \/ ~IntParses(Slice1(p.start_element))
    THEN Failed("ValueError")
    ELSE IF p.axis \notin {"X", "Y", "Z"} THEN Failed("Exception")
    ELSE
    LET node_offset    == IntOf(Slice1(p.start_node)) - 1
        element_offset == IntOf(Slice1(p.start_element)) - 1
        nds == CylinderRingNodes(p, node_offset, owner)
    IN  IF p.element_type \notin {"Quad", "Rect"}
        THEN Failed("Exception")
        ELSE [nodes    |-> nds,
              elements |-> [k \in {i + element_offset : i \in 1..p.n} |->
                               Quad(ElementName(ElementPrefix(p.element_type), k), nds,
                                    RingAttached(k - element_offset, p.n), node_offset,
                                    p, p.element_type)],
              status   |-> "generated"]

\* the ring mesh objects, as their constructors leave them: the arguments, the
\* registries and how construction ended

\* AnnulusRingMesh(outer_radius, inner_radius, num_quads, ..., origin, axis,
\*                 start_node, start_element)
AnnulusRingMesh(args, owner) ==
    LET p == [r1 |-> args.inner_radius, r2 |-> args.outer_radius, n |-> args.num_quads,
              t |-> args.t, E |-> args.E, nu |-> args.nu,
              kx_mod |-> args.kx_mod, ky_mod |-> args.ky_mod,
              origin |-> args.origin, axis |-> args.axis,
              start_node |-> args.start_node, start_element |-> args.start_element]
        out == AnnulusRingGenerate(p, owner)
    IN  [kind |-> "AnnulusRingMesh", args |-> args,
         nodes |-> out.nodes, elements |-> out.elements, status |-> out.status]

\* AnnulusTransRingMesh(outer_radius, inner_radius, num_inner_quads, ...)
AnnulusTransRingMesh(args, owner) ==
    LET p == [r1 |-> args.inner_radius,
              r2 |-> (args.inner_radius + args.outer_radius) \div 2,
              r3 |-> args.outer_radius, n |-> args.num_quads,
              t |-> args.t, E |-> args.E, nu |-> args.nu,
              kx_mod |-> args.kx_mod, ky_mod |-> args.ky_mod,
              origin |-> args.origin, axis |-> args.axis,
              start_node |-> args.start_node, start_element |-> args.start_element]
        out == AnnulusTransRingGenerate(p, owner)
    IN  [kind |-> "AnnulusTransRingMesh", args |-> args,
         nodes |-> out.nodes, elements |-> out.elements, status |-> out.status]

\* CylinderRingMesh(radius, height, num_elements, ..., origin, axis, start_node,
\*                  start_element, element_type)
CylinderRingMesh(args, owner) ==
    LET p == [radius |-> args.radius, height |-> args.height, n |-> args.num_quads,
              t |-> args.t, E |-> args.E, nu |-> args.nu,
              kx_mod |-> args.kx_mod, ky_mod |-> args.ky_mod,
              origin |-> args.origin, axis |-> args.axis,
              start_node |-> args.start_node, start_element |-> args.start_element,
              element_type |-> args.element_type]
        out == CylinderRingGenerate(p, owner)
    IN  [kind |-> "CylinderRingMesh", args |-> args,
         nodes |-> out.nodes, elements |-> out.elements, status |-> out.status]

----------------------------------------------------------------------------
(* Sweeps: AnnulusMesh and CylinderMesh *)

(* pi enters the sweeps only through int(.) and through comparisons with     *)
(* lengths; over the lengths the bounds allow, the fraction below gives      *)
(* the same integers and the same comparisons as pi.                         *)
Pi == <<355, 113>>

\* fractions <<numerator, denominator>> with a positive denominator
Less(a, b) ==
    a[1] * b[2] < b[1] * a[2]

\* min(a, b): b where b < a, else a
MinOf(a, b) ==
    IF Less(b, a) THEN b ELSE a

Quotient(a, b) ==
    <<a[1] * b[2], a[2] * b[1]>>

\* int(a) for a >= 0
IntPart(a) ==
    a[1] \div a[2]

\* int(round(a, 0)) for a >= 0 that is no odd multiple of 1/2
IntRound(a) ==
    (2 * a[1] + a[2]) \div (2 * a[2])

\* circumf = 2*pi*r
Circumf(r) ==
    <<2 * Pi[1] * r, Pi[2]>>

\* n_circ = int(circumf/mesh_size)
NCirc(r_inner, mesh_size) ==
    IntPart(Quotient(Circumf(r_inner), <<mesh_size, 1>>))

\* b_circ = circumf/n_circ
BCirc(r_inner, n_circ) ==
    Quotient(Circumf(r_inner), <<n_circ, 1>>)

\* n_rad = int(radial/min(mesh_size, 3*b_circ))
NRad(radial, mesh_size, b_circ) ==
    IntPart(Quotient(<<radial, 1>>, MinOf(<<mesh_size, 1>>, <<3 * b_circ[1], b_circ[2]>>)))

\* Transition without the factor 3: b_circ > mesh_size
TransitionAtTargetSize(b_circ, mesh_size) ==
    Less(<<mesh_size, 1>>, b_circ)

\* b_circ > 3*mesh_size
Transition(b_circ, mesh_size) ==
    Less(<<3 * mesh_size, 1>>, b_circ)

\* NextNode advancing by one ring of n_circ nodes whatever ring was built
NextNodeByRing(n, n_circ, transition) ==
    n + n_circ

\* the name number of the next ring's first node
NextNode(n, n_circ, transition) ==
    IF transition THEN n + 3 * n_circ ELSE n + n_circ

\* NextElement advancing by n_circ elements whatever ring was built
NextElementByRing(q, n_circ, transition) ==
    q + n_circ

\* the name number of the next ring's first element
NextElement(q, n_circ, transition) ==
    IF transition THEN q + 4 * n_circ ELSE q + n_circ

\* Update keeping the value a key already has
UpdateKeepingEarlier(dict, new) ==
    [k \in DOMAIN dict \cup DOMAIN new |-> IF k \in DOMAIN dict THEN dict[k] ELSE new[k]]

\* dict.update(new)
Update(dict, new) ==
    [k \in DOMAIN dict \cup DOMAIN new |-> IF k \in DOMAIN new THEN new[k] ELSE dict[k]]

\* self.nodes[node.Name]
Lookup(nds, node) ==
    nds[IntOf(Slice1(node.Name))]

\* Reattach with the closing loop left out
ReattachSkipped(els, nds) ==
    els

\* the closing loop of both sweeps: every element is attached to the nodes the
\* registry holds under the names of its nodes
Reattach(els, nds) ==
    [k \in DOMAIN els |->
        [els[k] EXCEPT !.i_node = Lookup(nds, @), !.j_node = Lookup(nds, @),
                       !.m_node = Lookup(nds, @), !.n_node = Lookup(nds, @)]]

\* the elements of the ring built last are the objects the sweep's registry holds
RingReattached(els) ==
    IF ring.status = "generated"
    THEN [ring EXCEPT !.elements = [k \in DOMAIN ring.elements |-> els[k]]]
    ELSE ring

\* FrustrumMesh.__init__ begins with AnnulusMesh.__init__
AnnulusKinds == {"AnnulusMesh", "FrustrumMesh"}

\* AnnulusMesh._generate, up to its loop
AnnulusMeshBegin ==
    /\ sweep.status = "new"
    /\ sweep.kind \in AnnulusKinds
    /\ sweep' =
         IF ~IntParses(Slice1(sweep.start_node)) \/ ~IntParses(Slice1(sweep.start_element))
         THEN [sweep EXCEPT !.status = "ValueError"]
         ELSE [sweep EXCEPT !.r_inner = sweep.r1,
                            !.n = IntOf(Slice1(sweep.start_node)),
                            !.q = IntOf(Slice1(sweep.start_element)),
                            !.n_circ = NCirc(sweep.r1, sweep.mesh_size),
                            !.num_quads_outer = NCirc(sweep.r1, sweep.mesh_size),
                            !.status = "loop"]
    /\ UNCHANGED <<rectVars, ring>>

\* one pass of the loop of AnnulusMesh._generate, up to the construction of the ring
AnnulusMeshRing ==
    /\ sweep.status = "loop"
    /\ sweep.kind \in AnnulusKinds
    /\ sweep.r_inner < sweep.r2
    /\ LET radial == sweep.r2 - sweep.r_inner
           n_circ == sweep.n_circ
       IN  IF n_circ = 0
           THEN sweep' = [sweep EXCEPT !.status = "ZeroDivisionError"] /\ UNCHANGED ring
           ELSE
           LET b_circ == BCirc(sweep.r_inner, n_circ)
               n_rad  == NRad(radial, sweep.mesh_size, b_circ)
           IN  IF n_rad = 0
               THEN sweep' = [sweep EXCEPT !.status = "ZeroDivisionError"] /\ UNCHANGED ring
               ELSE
               LET h_rad      == radial \div n_rad
                   transition == Transition(b_circ, sweep.mesh_size)
                   args == [outer_radius |-> sweep.r_inner + h_rad,
                            inner_radius |-> sweep.r_inner,
                            num_quads |-> n_circ,
                            t |-> sweep.t, E |-> sweep.E, nu |-> sweep.nu,
                            kx_mod |-> sweep.kx_mod, ky_mod |-> sweep.ky_mod,
                            origin |-> sweep.origin, axis |-> sweep.axis,
                            start_node |-> NodeName(sweep.n),
                            start_element |-> ElementName("Q", sweep.q)]
                   made == IF transition
                           THEN AnnulusTransRingMesh(args, sweep.rings + 1)
                           ELSE AnnulusRingMesh(args, sweep.rings + 1)
               IN  IF made.status # "generated"
                   THEN sweep' = [sweep EXCEPT !.status = made.status] /\ UNCHANGED ring
                   ELSE /\ ring' = made
                        /\ sweep' = [sweep EXCEPT
                             !.n = NextNode(sweep.n, n_circ, transition),
                             !.q = NextElement(sweep.q, n_circ, transition),
                             !.n_circ = IF transition THEN 3 * n_circ ELSE n_circ,
                             !.num_quads_outer = IF transition THEN 3 * n_circ ELSE @,
                             !.h = h_rad,
                             !.rings = @ + 1,
                             !.status = "update"]
    /\ UNCHANGED rectVars

\* the rest of the pass: the ring is merged and the sweep moves outward
AnnulusMeshUpdate ==
    /\ sweep.status = "update"
    /\ sweep.kind \in AnnulusKinds
    /\ sweep' = [sweep EXCEPT !.nodes = Update(@, ring.nodes),
                              !.elements = Update(@, ring.elements),
                              !.r_inner = @ + sweep.h,
                              !.status = "loop"]
    /\ UNCHANGED <<rectVars, ring>>

\* the loop of AnnulusMesh._generate has ended
AnnulusMeshReattach ==
    /\ sweep.status = "loop"
    /\ sweep.kind \in AnnulusKinds
    /\ ~(sweep.r_inner < sweep.r2)
    /\ sweep' = [sweep EXCEPT !.elements = Reattach(@, sweep.nodes),
                              !.status = IF sweep.kind = "FrustrumMesh"
                                         THEN "annulus" ELSE "generated"]
    /\ ring' = RingReattached(sweep'.elements)
    /\ UNCHANGED rectVars

\* |cos| (g = "abscos") or |sin| (g = "abssin") of the angle a, where it is
\* rational: <<numerator, denominator>>, and <<>> where it is not.  The angles
\* are rational parts of a turn, at which the only rational values are 0, 1/2, 1.
AbsTrig(g, a) ==
    LET c == IF g = "abscos" THEN a ELSE AddTurn(a, <<1, 4>>)
    IN  IF c[2] \in {1, 2} THEN <<1, 1>>
        ELSE IF c[2] = 4 THEN <<0, 1>>
        ELSE IF c[2] \in {3, 6} THEN <<1, 2>>
        ELSE <<>>

\* r = ((X - Xo)**2 + (Z - Zo)**2)**0.5 for a ring node: <<numerator,
\* denominator, g, a>> for the length (numerator/denominator)*g(a), with g = "one"
\* wherever the length is rational
PlanRadius(node) ==
    LET rho(r, g, a) ==
            IF r = 0 THEN <<0, 1, "one", <<0, 1>>>>
            ELSE IF AbsTrig(g, a) = <<>> THEN <<r, 1, g, a>>
            ELSE LET t == AbsTrig(g, a)
                     d == GCD(r * t[1], t[2])
                 IN  IF t[1] = 0 THEN <<0, 1, "one", <<0, 1>>>>
                     ELSE <<(r * t[1]) \div d, t[2] \div d, "one", <<0, 1>>>>
    IN  IF node.X.r # 0 /\ node.Z.r # 0
        THEN <<node.X.r, 1, "one", <<0, 1>>>>
        ELSE IF node.X.r # 0
        THEN rho(node.X.r, IF node.X.f = "cos" THEN "abscos" ELSE "abssin", node.X.a)
        ELSE IF node.Z.r # 0
        THEN rho(node.Z.r, IF node.Z.f = "cos" THEN "abscos" ELSE "abssin", node.Z.a)
        ELSE <<0, 1, "one", <<0, 1>>>>

\* (r - large_radius)/(large_radius - small_radius)*height: the fraction
\* <<numerator, denominator>> in lowest terms where r is rational, else <<>>
RiseOf(r, large_radius, small_radius, height) ==
    IF r[3] # "one" THEN <<>>
    ELSE LET num == (r[1] - large_radius * r[2]) * height
             den == (large_radius - small_radius) * r[2]
             sgn == IF den < 0 THEN -1 ELSE 1
             d   == GCD(IF num < 0 THEN -num ELSE num, sgn * den)
         IN  IF num = 0 THEN <<0, 1>> ELSE <<(sgn * num) \div d, (sgn * den) \div d>>

\* a coordinate c increased by (r - large_radius)/(large_radius - small_radius)*height
Raised(c, r, large_radius, small_radius, height) ==
    [off |-> c.off, r |-> c.r, f |-> c.f, a |-> c.a,
     rise |-> RiseOf(r, large_radius, small_radius, height),
     of |-> IF r[3] = "one" THEN <<>> ELSE r]

\* the node as the loop of FrustrumMesh.__init__ leaves it
FrustrumNode(node, axis, large_radius, small_radius, height) ==
    LET r == PlanRadius(node)
    IN  IF axis = "Y"
        THEN [node EXCEPT !.Y = Raised(@, r, large_radius, small_radius, height)]
        ELSE IF axis = "X"
        THEN [node EXCEPT !.X = Raised(@, r, large_radius, small_radius, height)]
        ELSE [node EXCEPT !.Z = Raised(@, r, large_radius, small_radius, height)]

\* FrustrumMesh.__init__ after AnnulusMesh.__init__ has returned: every node of
\* the registry is moved along the axis
FrustrumMeshAdjust ==
    /\ sweep.status = "annulus"
    /\ sweep.kind = "FrustrumMesh"
    /\ LET moved == [k \in DOMAIN sweep.nodes |->
                        FrustrumNode(sweep.nodes[k], sweep.axis, sweep.r2, sweep.r1,
                                     sweep.height)]
       IN  sweep' =
             IF sweep.nodes # <<>> /\ sweep.axis \notin {"X", "Y", "Z"}
             THEN [sweep EXCEPT !.status = "Exception"]
             ELSE IF sweep.nodes # <<>> /\ sweep.r2 = sweep.r1
             THEN [sweep EXCEPT !.status = "ZeroDivisionError"]
             ELSE [sweep EXCEPT !.nodes = moved,
                                !.elements = Reattach(@, moved),
                                !.status = "generated"]
    /\ ring' = [status |-> "none"]
    /\ UNCHANGED rectVars

\* self.num_elements as CylinderMesh.__init__ sets it; the argument is <<>> for
\* None and <<k>> for the number k
NumElements(num_elements, radius, mesh_size) ==
    IF num_elements = <<>>
    THEN IntRound(Quotient(Circumf(radius), <<mesh_size, 1>>))
    ELSE num_elements[1]

\* the origin CylinderMesh gives the ring that starts at y
RingOrigin(axis, y) ==
    IF axis = "Y" THEN <<0, y, 0>>
    ELSE IF axis = "X" THEN <<y, 0, 0>>
    ELSE <<0, 0, y>>

\* CylinderMesh.__init__ and _generate, up to its loop
CylinderMeshBegin ==
    /\ sweep.status = "new"
    /\ sweep.kind = "CylinderMesh"
    /\ sweep' =
         IF ~IntParses(Slice1(sweep.start_node)) \/ ~IntParses(Slice1(sweep.start_element))
         THEN [sweep EXCEPT
                 !.self_num_elements =
                     NumElements(sweep.num_elements, sweep.radius, sweep.mesh_size),
                 !.status = "ValueError"]
         ELSE [sweep EXCEPT
                 !.self_num_elements =
                     NumElements(sweep.num_elements, sweep.radius, sweep.mesh_size),
                 !.y = sweep.center[2],
                 !.n = IntOf(Slice1(sweep.start_node)),
                 !.q = IntOf(Slice1(sweep.start_element)),
                 !.status = "loop"]
    /\ UNCHANGED <<rectVars, ring>>

\* one pass of the loop of CylinderMesh._generate, up to the construction of the ring
CylinderMeshRing ==
    /\ sweep.status = "loop"
    /\ sweep.kind = "CylinderMesh"
    /\ sweep.y < sweep.height
    /\ LET height == sweep.height - sweep.y
           n_vert == height \div sweep.mesh_size
       IN  IF n_vert = 0
           THEN sweep' = [sweep EXCEPT !.status = "ZeroDivisionError"] /\ UNCHANGED ring
           ELSE
           LET h_y  == height \div n_vert
               args == [radius |-> sweep.radius, height |-> h_y,
                        num_quads |-> sweep.self_num_elements,
                        t |-> sweep.t, E |-> sweep.E, nu |-> sweep.nu,
                        kx_mod |-> 1, ky_mod |-> 1,
                        origin |-> RingOrigin(sweep.axis, sweep.y), axis |-> sweep.axis,
                        start_node |-> NodeName(sweep.n),
                        start_element |-> ElementName("Q", sweep.q),
                        element_type |-> sweep.element_type]
               made == CylinderRingMesh(args, sweep.rings + 1)
           IN  IF sweep.axis \notin {"X", "Y", "Z"}
               THEN sweep' = [sweep EXCEPT !.status = "UnboundLocalError"] /\ UNCHANGED ring
               ELSE IF made.status # "generated"
               THEN sweep' = [sweep EXCEPT !.status = made.status] /\ UNCHANGED ring
               ELSE /\ ring' = made
                    /\ sweep' = [sweep EXCEPT
                         !.n = @ + sweep.self_num_elements,
                         !.q = @ + sweep.self_num_elements,
                         !.h = h_y,
                         !.rings = @ + 1,
                         !.status = "update"]
    /\ UNCHANGED rectVars

\* the rest of the pass: the ring is merged and the sweep moves up
CylinderMeshUpdate ==
    /\ sweep.status = "update"
    /\ sweep.kind = "CylinderMesh"
    /\ sweep' = [sweep EXCEPT !.nodes = Update(@, ring.nodes),
                              !.elements = Update(@, ring.elements),
                              !.y = @ + sweep.h,
                              !.status = "loop"]
    /\ UNCHANGED <<rectVars, ring>>

\* the loop of CylinderMesh._generate has ended
CylinderMeshReattach ==
    /\ sweep.status = "loop"
    /\ sweep.kind = "CylinderMesh"
    /\ ~(sweep.y < sweep.height)
    /\ sweep' = [sweep EXCEPT !.elements = Reattach(@, sweep.nodes),
                              !.status = "generated"]
    /\ ring' = RingReattached(sweep'.elements)
    /\ UNCHANGED rectVars

----------------------------------------------------------------------------
(* Rings and sweeps: the state machine *)

\* a ring mesh constructed by the caller
AnnulusRing ==
    /\ ring.status = "new"
    /\ ring.kind = "AnnulusRingMesh"
    /\ ring' = AnnulusRingMesh(ring.args, 0)
    /\ UNCHANGED <<rectVars, sweep>>

AnnulusTransRing ==
    /\ ring.status = "new"
    /\ ring.kind = "AnnulusTransRingMesh"
    /\ ring' = AnnulusTransRingMesh(ring.args, 0)
    /\ UNCHANGED <<rectVars, sweep>>

CylinderRing ==
    /\ ring.status = "new"
    /\ ring.kind = "CylinderRingMesh"
    /\ ring' = CylinderRingMesh(ring.args, 0)
    /\ UNCHANGED <<rectVars, sweep>>

\* half a length unit
Half == Scale \div 2

\* a tenth of a length unit
Small == Scale \div 10

Axes == {"X", "Y", "Z", "W"}

\* kx_mod and ky_mod as given to the sweeps: the defaults and another pair
Modifiers == {<<1, 1>>, <<2, 3>>}
RingNames == {<<"N", "1">>, <<"N", "7">>, <<"N">>}
RingElements == {<<"Q", "1">>, <<"Q", "5">>}
CylinderTypes == {"Quad", "Rect", "Tri"}

\* the arguments drawn for the rings the caller constructs
AnnulusRingArgs ==
    [outer_radius : {2 * Scale}, inner_radius : {Scale}, num_quads : 0..MaxQuads,
     t : {1}, E : {1}, nu : {3}, kx_mod : {1, 2}, ky_mod : {1, 3},
     origin : {Origin}, axis : Axes, start_node : RingNames, start_element : RingElements]

CylinderRingArgs ==
    [radius : {Scale}, height : {Scale}, num_quads : 0..MaxQuads,
     t : {1}, E : {1}, nu : {3}, kx_mod : {1, 2}, ky_mod : {1, 3},
     origin : {Origin}, axis : Axes, start_node : RingNames, start_element : RingElements,
     element_type : CylinderTypes]

\* the arguments drawn for AnnulusMesh, with the locals of _generate unset
AnnulusMeshes ==
    {[kind |-> "AnnulusMesh", mesh_size |-> Scale * s, r1 |-> r,
      r2 |-> r + Scale * w, t |-> 1, E |-> 1, nu |-> 3, kx_mod |-> k[1], ky_mod |-> k[2],
      origin |-> Origin, axis |-> a,
      start_node |-> names[1], start_element |-> names[2],
      num_quads_outer |-> "None", r_inner |-> 0, n |-> 0, q |-> 0, n_circ |-> 0, h |-> 0,
      rings |-> 0, nodes |-> <<>>, elements |-> <<>>, status |-> "new"] :
        s \in 1..MaxMeshSize, r \in {Small} \cup {Half * i : i \in 1..MaxInner},
        w \in 0..MaxRadial, a \in Axes, k \in Modifiers,
        names \in {<<<<"N", "1">>, <<"Q", "1">>>>, <<<<"N", "7">>, <<"Q", "5">>>>,
                   <<<<"N">>, <<"Q", "1">>>>}}

\* the arguments drawn for FrustrumMesh: those of an AnnulusMesh (large_radius
\* for its outer radius, small_radius for its inner radius) and the height
FrustrumMeshes ==
    {[kind |-> "FrustrumMesh", mesh_size |-> m.mesh_size, r1 |-> m.r1, r2 |-> m.r2,
      t |-> m.t, E |-> m.E, nu |-> m.nu, kx_mod |-> m.kx_mod, ky_mod |-> m.ky_mod,
      origin |-> m.origin, axis |-> m.axis,
      start_node |-> m.start_node, start_element |-> m.start_element,
      num_quads_outer |-> "None", r_inner |-> 0, n |-> 0, q |-> 0, n_circ |-> 0, h |-> 0,
      rings |-> 0, nodes |-> <<>>, elements |-> <<>>, status |-> "new",
      height |-> Scale * t] :
        m \in AnnulusMeshes, t \in {1, 5}}

\* the arguments drawn for CylinderMesh, with the locals of _generate unset
CylinderMeshes ==
    {[kind |-> "CylinderMesh", mesh_size |-> Scale * s, radius |-> r,
      height |-> Scale * h, t |-> 1, E |-> 1, nu |-> 3, kx_mod |-> k[1], ky_mod |-> k[2],
      center |-> c, axis |-> a,
      start_node |-> names[1], start_element |-> names[2],
      num_elements |-> e, element_type |-> et,
      self_num_elements |-> 0, y |-> 0, n |-> 0, q |-> 0, h |-> 0,
      rings |-> 0, nodes |-> <<>>, elements |-> <<>>, status |-> "new"] :
        s \in 1..MaxMeshSize, r \in {Small, Scale}, h \in 0..MaxHeight, k \in Modifiers,
        c \in {<<0, 0, 0>>, <<Scale, Half, Scale>>},
        a \in Axes, e \in {<<>>} \cup {<<k>> : k \in 1..MaxQuads}, et \in CylinderTypes,
        names \in {<<<<"N", "1">>, <<"Q", "1">>>>, <<<<"N", "7">>, <<"Q", "5">>>>,
                   <<<<"N">>, <<"Q", "1">>>>}}

\* no RectangleMesh is involved
NoRectangle ==
    /\ cfg = <<>>
    /\ heap = <<>>
    /\ xref = <<>>
    /\ yref = <<>>
    /\ openings = <<>>
    /\ nodes = <<>>
    /\ elements = <<>>
    /\ status = <<>>
    /\ grid = <<>>
    /\ calls = 0
    /\ solved = <<>>
    /\ answer = [status |-> "none"]

\* the caller is about to construct one ring mesh or one sweep
InitRevolve ==
    /\ NoRectangle
    /\ \/ /\ sweep = [status |-> "none"]
          /\ \/ \E k \in {"AnnulusRingMesh", "AnnulusTransRingMesh"}, args \in AnnulusRingArgs :
                   ring = [status |-> "new", kind |-> k, args |-> args]
             \/ \E args \in CylinderRingArgs :
                   ring = [status |-> "new", kind |-> "CylinderRingMesh", args |-> args]
       \/ /\ ring = [status |-> "none"]
          /\ sweep \in AnnulusMeshes \cup FrustrumMeshes \cup CylinderMeshes

NextRevolve ==
    \/ AnnulusRing
    \/ AnnulusTransRing
    \/ CylinderRing
    \/ AnnulusMeshBegin
    \/ AnnulusMeshRing
    \/ AnnulusMeshUpdate
    \/ AnnulusMeshReattach
    \/ FrustrumMeshAdjust
    \/ CylinderMeshBegin
    \/ CylinderMeshRing
    \/ CylinderMeshUpdate
    \/ CylinderMeshReattach

\* ring meshes and sweeps
SpecRevolve ==
    InitRevolve /\ [][NextRevolve]_vars

----------------------------------------------------------------------------
(* RectangleMesh: properties *)

\* the node records an element refers to
ElementRefs(el) ==
    {el.i_node, el.j_node, el.m_node, el.n_node}

\* the number of grid cells a span is cut into when 0 and the span length are
\* its only control points
Cells(len, size) ==
    IF len <= size THEN 1 ELSE (len + size - 1) \div size

LocalXY(node) ==
    node_local_coords(cfg.plane, cfg.origin, node)

\* C1: a RectangleMesh with no openings leaves generate() with (num_cols+1)*(num_rows+1)
\* nodes named 'N' + (k + node_offset), k = 1, 2, ... row by row, and num_cols*num_rows
\* elements named prefix + (k + element_offset); mesh_size = 1, width = 4, height = 2
\* gives N1..N15 and Q1..Q8.
C1_GridCardinality ==
    \A m \in Meshes :
        status[m] # "new" =>
            LET num_cols       == Cells(cfg.width, cfg.mesh_size)
                num_rows       == Cells(cfg.height, cfg.mesh_size)
                node_offset    == IntOf(Tail(cfg.start_node)) - 1
                element_offset == IntOf(Tail(cfg.start_element)) - 1
                prefix         == IF cfg.element_type = "Quad" THEN "Q" ELSE "R"
            IN  /\ status[m] = "generated"
                /\ DOMAIN nodes[m] =
                       {k + node_offset : k \in 1..((num_cols + 1) * (num_rows + 1))}
                /\ DOMAIN elements[m] = {k + element_offset : k \in 1..(num_cols * num_rows)}
                /\ \A k \in 1..((num_cols + 1) * (num_rows + 1)) :
                       LET nd == nodes[m][k + node_offset]
                       IN  /\ nd.Name = <<"N">> \o Str(k + node_offset)
                           /\ LocalXY(nd) =
                                  <<((k - 1) % (num_cols + 1)) * (cfg.width \div num_cols),
                                    ((k - 1) \div (num_cols + 1)) * (cfg.height \div num_rows)>>
                /\ \A k \in 1..(num_cols * num_rows) :
                       elements[m][k + element_offset].Name =
                           <<prefix>> \o Str(k + element_offset)
                /\ (/\ cfg.mesh_size = Scale /\ cfg.width = 4 * Scale /\ cfg.height = 2 * Scale
                    /\ cfg.start_node = <<"N", "1">> /\ cfg.start_element = <<"Q", "1">>
                    /\ cfg.element_type = "Quad")
                   => /\ {nodes[m][k].Name : k \in DOMAIN nodes[m]} =
                             {<<"N">> \o Str(k) : k \in 1..15}
                      /\ {elements[m][k].Name : k \in DOMAIN elements[m]} =
                             {<<"Q">> \o Str(k) : k \in 1..8}

\* C1 witness: the mesh of the example was generated and holds N15 and Q8
C1_Witness ==
    /\ cfg.mesh_size = Scale /\ cfg.width = 4 * Scale /\ cfg.height = 2 * Scale
    /\ cfg.start_node = <<"N", "1">> /\ cfg.start_element = <<"Q", "1">>
    /\ status[1] = "generated"
    /\ openings[1] = <<>>
    /\ Cardinality(DOMAIN nodes[1]) = 15
    /\ Cardinality(DOMAIN elements[1]) = 8
    /\ nodes[1][15].Name = <<"N", "1", "5">>

\* C2: after generate() returns, every node left in mesh.nodes is the i, j, m or n
\* node of an element left in mesh.elements, whatever openings were declared.
C2_NoOrphanNodes ==
    \A m \in Meshes :
        status[m] = "generated" =>
            \A k \in DOMAIN nodes[m] :
                \E e \in DOMAIN elements[m] : nodes[m][k] \in ElementRefs(elements[m][e])

StrictlyInside(x, y, o) ==
    /\ o.x_left < x /\ x < o.x_left + o.width
    /\ o.y_bott < y /\ y < o.y_bott + o.height

\* C2 witness: generate() returned on a mesh with an opening, and a grid point that
\* lies strictly inside no opening has no node left: the orphan sweep removed it
C2_Witness ==
    /\ status[1] = "generated"
    /\ openings[1] # <<>>
    /\ \E x \in Range(grid[1].xs), y \in Range(grid[1].ys) :
          /\ \A o \in DOMAIN openings[1] : ~StrictlyInside(x, y, openings[1][o])
          /\ \A k \in DOMAIN nodes[1] : LocalXY(nodes[1][k]) # <<x, y>>

\* C3: after generate() returns, each of the four node references of every element
\* left in mesh.elements is a record still present in mesh.nodes, for any set of
\* openings (overlapping, adjacent, reaching or crossing the mesh boundary).
C3_NoDanglingReference ==
    \A m \in Meshes :
        status[m] = "generated" =>
            \A e \in DOMAIN elements[m] :
                \A nd \in ElementRefs(elements[m][e]) :
                    \E k \in DOMAIN nodes[m] : nodes[m][k] = nd

\* C7: each RectangleMesh instance owns its own initially-empty control-point
\* collections: calls on mesh 1 leave x_control and y_control of mesh 2, which
\* declared no opening and was not generated, as constructed.
C7_OwnControlPoints ==
    status[2] = "new" => (XControl(2) = <<>> /\ YControl(2) = <<>>)

EdgesOnGrid(m) ==
    \A o \in DOMAIN openings[m] :
        LET opng == openings[m][o]
        IN  /\ \A x \in {opng.x_left, opng.x_left + opng.width} :
                   (0 <= x /\ x <= cfg.width) => x \in Range(grid[m].xs)
            /\ \A y \in {opng.y_bott, opng.y_bott + opng.height} :
                   (0 <= y /\ y <= cfg.height) => y \in Range(grid[m].ys)

\* C8: add_rect_opening records the opening under its name and appends x_left,
\* x_left + width to the x control points and y_bott, y_bott + height to the y
\* control points, so that when generate() returns every edge of every declared
\* opening that lies within the mesh domain is a grid line.
C8_OpeningEdgesOnGrid ==
    [][\A m \in Meshes :
          /\ (openings'[m] # openings[m]) =>
                \E o \in DOMAIN openings'[m] :
                    LET opng == openings'[m][o]
                    IN  /\ XControl(m)' = XControl(m) \o <<opng.x_left, opng.x_left + opng.width>>
                        /\ YControl(m)' = YControl(m) \o <<opng.y_bott, opng.y_bott + opng.height>>
          /\ (status[m] = "new" /\ status'[m] = "generated") => EdgesOnGrid(m)']_vars

----------------------------------------------------------------------------
(* Rings and sweeps: properties *)

\* the place of a node
Location(node) ==
    <<node.X, node.Y, node.Z>>

\* the place at radius r and k/n of a turn, in the plane of the ring mesh built
\* from args
RingPlace(args, r, k, n) ==
    RevolveXYZ(args.axis, args.origin, r, Turn(k % n, n), 0)

\* the registries a construction that ended normally has left
Registries ==
    (IF ring.status = "generated" THEN {ring} ELSE {})
        \cup (IF sweep.status = "generated" THEN {sweep} ELSE {})

\* C4: for every sector count n >= 1, every element of a ring mesh, and so of a
\* sweep, refers to four pairwise distinct nodes.
C4_DistinctNodeReferences ==
    \A r \in Registries :
        \A k \in DOMAIN r.elements : Cardinality(ElementRefs(r.elements[k])) = 4

\* the ring the sweep has built and not yet merged
RingToMerge ==
    sweep.status = "update"

\* the names the ring to merge shares with the sweep's registry
SharedNodes ==
    DOMAIN ring.nodes \cap DOMAIN sweep.nodes

\* C5: while a sweep stacks rings, no two records of its node registry lie at the
\* same place, and every node name the ring about to be merged shares with the
\* registry denotes the same place in both.
C5_OneRecordPerLocation ==
    /\ sweep.status \in {"loop", "update", "generated"} =>
          \A a, b \in DOMAIN sweep.nodes :
              a # b => Location(sweep.nodes[a]) # Location(sweep.nodes[b])
    /\ RingToMerge =>
          \A k \in SharedNodes : Location(ring.nodes[k]) = Location(sweep.nodes[k])

\* a ring of 18 sectors follows the transition ring that tripled 6 sectors, and
\* shares that ring's outer circle
C5_Witness ==
    /\ RingToMerge
    /\ sweep.kind = "AnnulusMesh"
    /\ ring.kind = "AnnulusRingMesh"
    /\ ring.args.num_quads = 3 * NCirc(sweep.r1, sweep.mesh_size)
    /\ Cardinality(SharedNodes) = ring.args.num_quads

\* the nodes of the ring to merge that lie on its inner circle (its bottom circle,
\* for a cylinder ring)
InnerEdge ==
    {k \in DOMAIN ring.nodes :
        \E t \in 0..(ring.args.num_quads - 1) :
            Location(ring.nodes[k]) =
                RingPlace(ring.args,
                          IF ring.kind = "CylinderRingMesh" THEN ring.args.radius
                          ELSE ring.args.inner_radius,
                          t, ring.args.num_quads)}

\* the number of elements of a ring of n sectors
RingElementCount(kind, n) ==
    IF kind = "AnnulusTransRingMesh" THEN 4 * n ELSE n

\* C6: while a sweep merges rings, no element name of the new ring is in the
\* registry already, the node names of the new ring that are in the registry
\* already are names of its inner (bottom) circle, and the registry holds as many
\* elements as the rings built so far count together: n for a plain ring, 4n for
\* a transition ring.
C6_NothingOverwritten ==
    /\ RingToMerge =>
          /\ DOMAIN ring.elements \cap DOMAIN sweep.elements = {}
          /\ SharedNodes \subseteq InnerEdge
          /\ Cardinality(DOMAIN ring.elements) =
                 RingElementCount(ring.kind, ring.args.num_quads)
          /\ Cardinality(DOMAIN sweep.elements) + Cardinality(DOMAIN ring.elements) =
                 sweep.q - IntOf(Slice1(sweep.start_element))
    /\ sweep.status \in {"loop", "generated"} =>
          Cardinality(DOMAIN sweep.elements) = sweep.q - IntOf(Slice1(sweep.start_element))

\* a transition ring is about to be merged onto the rings below it
C6_Witness ==
    /\ RingToMerge
    /\ ring.kind = "AnnulusTransRingMesh"
    /\ sweep.rings >= 2
    /\ SharedNodes # {}

\* the AnnulusRingMesh constructed last
PlainRing ==
    ring.status = "generated" /\ ring.kind = "AnnulusRingMesh"

\* whether element k of the plain ring has the corners at the places a, b, c, d
Corners(k, a, b, c, d) ==
    LET el == ring.elements[(IntOf(Slice1(ring.args.start_element)) - 1) + k]
    IN  /\ Location(el.i_node) = a
        /\ Location(el.j_node) = b
        /\ Location(el.m_node) = c
        /\ Location(el.n_node) = d

InnerPlace(k) ==
    RingPlace(ring.args, ring.args.inner_radius, k - 1, ring.args.num_quads)

OuterPlace(k) ==
    RingPlace(ring.args, ring.args.outer_radius, k - 1, ring.args.num_quads)

\* C9, as the code has it: AnnulusRingMesh with sector count n produces n
\* elements, and element k has its corners (i, j, m, n) in the order
\* (outer node k, outer node k+1, inner node k+1, inner node k), where k+1 wraps
\* to 1 for k = n.
C9_CornersOuterFirst ==
    PlainRing =>
        /\ Cardinality(DOMAIN ring.elements) = ring.args.num_quads
        /\ \A k \in 1..ring.args.num_quads :
              Corners(k, OuterPlace(k), OuterPlace(k + 1), InnerPlace(k + 1), InnerPlace(k))

\* C9, as stated: the corners (i, j, m, n) are in the order (inner node k, inner
\* node k+1, outer node k+1, outer node k).
C9_CornersInnerFirst ==
    PlainRing =>
        /\ Cardinality(DOMAIN ring.elements) = ring.args.num_quads
        /\ \A k \in 1..ring.args.num_quads :
              Corners(k, InnerPlace(k), InnerPlace(k + 1), OuterPlace(k + 1), OuterPlace(k))

\* a ring of three sectors, whose last element wraps to the first nodes
C9_Witness ==
    /\ PlainRing
    /\ ring.args.num_quads = 3
    /\ Corners(3, OuterPlace(3), OuterPlace(1), InnerPlace(1), InnerPlace(3))

\* the AnnulusTransRingMesh constructed last
TransRing ==
    ring.status = "generated" /\ ring.kind = "AnnulusTransRingMesh"

\* whether a node of the transition ring lies on its circle of radius r
OnCircle(node, r) ==
    \E t \in 0..(3 * ring.args.num_quads - 1) :
        Location(node) = RingPlace(ring.args, r, t, 3 * ring.args.num_quads)

\* C10: AnnulusTransRingMesh with inner sector count n produces exactly 6n nodes,
\* named in order from the node offset: n on the inner circle, then 2n on the mid
\* circle, then 3n on the outer circle; and exactly 4n elements, each of whose
\* node numbers lies in 1..6n.
C10_TransitionRingLayout ==
    TransRing =>
        LET n   == ring.args.num_quads
            off == IntOf(Slice1(ring.args.start_node)) - 1
            r1  == ring.args.inner_radius
            r3  == ring.args.outer_radius
            r2  == (r1 + r3) \div 2
        IN  /\ DOMAIN ring.nodes = (off + 1)..(off + 6 * n)
            /\ \A i \in 1..(6 * n) :
                  /\ ring.nodes[off + i].Name = NodeName(off + i)
                  /\ OnCircle(ring.nodes[off + i],
                              IF i <= n THEN r1 ELSE IF i <= 3 * n THEN r2 ELSE r3)
            /\ Cardinality({Location(ring.nodes[k]) : k \in DOMAIN ring.nodes}) = 6 * n
            /\ Cardinality(DOMAIN ring.elements) = 4 * n
            /\ \A k \in DOMAIN ring.elements :
                  \A x \in ElementRefs(ring.elements[k]) :
                      /\ IntOf(Slice1(x.Name)) - off \in 1..(6 * n)
                      /\ ring.nodes[IntOf(Slice1(x.Name))] = x

\* a transition ring of two inner sectors: 12 nodes, 8 elements
C10_Witness ==
    /\ TransRing
    /\ ring.args.num_quads = 2
    /\ Cardinality(DOMAIN ring.nodes) = 12
    /\ Cardinality(DOMAIN ring.elements) = 8

\* the radius of the circle a node of a ring about the axis lies on
RingRadius(node, axis) ==
    IF axis = "X" THEN node.Y.r ELSE node.X.r

\* the coordinate of a node along the axis
AxisCoordinate(node, axis) ==
    IF axis = "Y" THEN node.Y ELSE IF axis = "X" THEN node.X ELSE node.Z

\* the FrustrumMesh whose construction has ended normally
Frustrum ==
    sweep.status = "generated" /\ sweep.kind = "FrustrumMesh"

\* C11: after the construction of a FrustrumMesh from large_radius R, small_radius
\* r and height H, every node on the outer edge (radius R) lies at offset 0 along
\* the axis from the origin and every node on the inner edge (radius r) at offset
\* +H.
C11_TaperEnds ==
    Frustrum =>
        \A k \in DOMAIN sweep.nodes :
            LET node == sweep.nodes[k]
            IN  /\ RingRadius(node, sweep.axis) = sweep.r2 =>
                      AxisCoordinate(node, sweep.axis).rise = <<0, 1>>
                /\ RingRadius(node, sweep.axis) = sweep.r1 =>
                      AxisCoordinate(node, sweep.axis).rise = <<sweep.height, 1>>

\* a single letter followed by a positive integer
WellFormed(name) ==
    /\ Len(name) >= 2
    /\ name[1] \in {"A", "N", "Q", "R"}
    /\ \A p \in 2..Len(name) : IsDigit(name[p])
    /\ NatOf(Tail(name), 0) >= 1

\* mesh m goes through generate() in this step
Generates(m) ==
    status[m] = "new" /\ status'[m] # "new"

\* C12: a generator given a first-node or first-element name that is not a single
\* letter followed by a positive integer ends with the naming error, and has done
\* no generation work by then: the registries and the control-point lists are as
\* they were.
C12_MalformedNamesRejected ==
    [][\A m \in Meshes :
          (Generates(m) /\ ~(WellFormed(cfg.start_node) /\ WellFormed(cfg.start_element))) =>
              /\ status'[m] = "ValueError"
              /\ heap' = heap
              /\ nodes' = nodes
              /\ elements' = elements]_vars

\* C13: after generation with well-formed names and no openings, the registries
\* hold a node named start_node and an element named start_element, and every
\* name is the prefix of the requested name followed by a number, the numbers
\* running on from the requested one.
C13_FirstNames ==
    \A m \in Meshes :
        (status[m] = "generated" /\ WellFormed(cfg.start_node)
                                 /\ WellFormed(cfg.start_element)) =>
            /\ \E k \in DOMAIN nodes[m] : nodes[m][k].Name = cfg.start_node
            /\ \E k \in DOMAIN elements[m] : elements[m][k].Name = cfg.start_element
            /\ {nodes[m][k].Name : k \in DOMAIN nodes[m]} =
                  {<<cfg.start_node[1]>> \o Str(NatOf(Tail(cfg.start_node), 0) + d) :
                      d \in 0..(Cardinality(DOMAIN nodes[m]) - 1)}
            /\ {elements[m][k].Name : k \in DOMAIN elements[m]} =
                  {<<cfg.start_element[1]>> \o Str(NatOf(Tail(cfg.start_element), 0) + d) :
                      d \in 0..(Cardinality(DOMAIN elements[m]) - 1)}

\* the construction of the sweep has ended, normally or not
SweepEnded ==
    sweep.status \notin {"none", "new", "loop", "update", "annulus"}

\* the construction of the ring mesh the caller asked for has ended
RingEnded ==
    sweep.status = "none" /\ ring.status \notin {"none", "new"}

\* C14: an unrecognized token always makes the operation end with the
\* invalid-token error and never lets it complete; here for the axis of the ring
\* meshes and the sweeps, given start names that can be read.
C14_UnrecognizedAxisFails ==
    /\ (/\ SweepEnded
        /\ sweep.axis \notin {"X", "Y", "Z"}
        /\ IntParses(Slice1(sweep.start_node))
        /\ IntParses(Slice1(sweep.start_element))) => sweep.status = "Exception"
    /\ (/\ RingEnded
        /\ ring.args.axis \notin {"X", "Y", "Z"}
        /\ ring.args.num_quads >= 1
        /\ IntParses(Slice1(ring.args.start_node))
        /\ IntParses(Slice1(ring.args.start_element))) => ring.status = "Exception"

\* C15: a generator call that ends in an error leaves the registries and the
\* control-point lists of the mesh exactly as they were before the call.
C15_AllOrNothing ==
    [][\A m \in Meshes :
          (Generates(m) /\ status'[m] # "generated") =>
              /\ nodes'[m] = nodes[m]
              /\ elements'[m] = elements[m]
              /\ XControl(m)' = XControl(m)
              /\ YControl(m)' = YControl(m)]_vars

\* C17: for every inner radius r1 > 0, outer radius r2 > r1 and target size
\* s > 0 (and an axis and start names that are valid), the sweep of AnnulusMesh
\* ends without error, with the accumulated inner radius at r2.
C17_SweepReachesOuterRadius ==
    (/\ SweepEnded
     /\ sweep.kind = "AnnulusMesh"
     /\ sweep.r1 > 0 /\ sweep.r2 > sweep.r1 /\ sweep.mesh_size > 0
     /\ sweep.axis \in {"X", "Y", "Z"}
     /\ IntParses(Slice1(sweep.start_node))
     /\ IntParses(Slice1(sweep.start_element))) =>
        /\ sweep.status = "generated"
        /\ sweep.r_inner = sweep.r2

----------------------------------------------------------------------------
(* Mesh: properties of the result queries *)

\* the four corners of an element in its own parametrization and its centre
\* (doubled coordinates)
CornersAndCentre(element) ==
    IF element.type = "Rect"
    THEN LET w == ElementWidth(element)
             h == ElementHeight(element)
         IN  {<<0, 0>>, <<2 * w, 0>>, <<2 * w, 2 * h>>, <<0, 2 * h>>, <<w, h>>}
    ELSE {<<-2, -2>>, <<2, -2>>, <<2, 2>>, <<-2, 2>>, <<0, 0>>}

\* the values a query with these arguments selects on mesh m
Selected(m, query, direction, combo) ==
    LET field(key) == IF query \in {"max_shear", "min_shear"}
                      THEN solved[m][key].shear ELSE solved[m][key].moment
        component  == IF direction \in {"Qx", "Mx"} THEN 1
                      ELSE IF direction \in {"Qy", "My"} THEN 2 ELSE 3
    IN  UNION {UNION {{field(key)[name][pt][component] :
                          pt \in CornersAndCentre(elements[m][key])} :
                      name \in {n \in Range(solved[m][key].LoadCombos) :
                                   combo = <<>> \/ combo = <<n>>}} :
               key \in DOMAIN elements[m]}

ValidDirection(query, direction) ==
    IF query \in {"max_shear", "min_shear"} THEN direction \in {"Qx", "Qy"}
    ELSE direction \in {"Mx", "My", "Mxy"}

\* C16: a query with a valid direction returns the maximum (max_shear,
\* max_moment) or the minimum (min_shear, min_moment) of the selected component
\* over every element of the mesh, over every load combination of the element
\* when combo is None and over the combination named combo otherwise, and over
\* the four corners and the centre of the element; it returns None where that
\* selects nothing; and it leaves the node and element registries as they were
C16_ExtremeOverSamplePoints ==
    [][(answer' # answer /\ ValidDirection(answer'.query, answer'.direction))
         => LET S == Selected(answer'.mesh, answer'.query, answer'.direction, answer'.combo)
            IN  /\ answer'.status = "returned"
                /\ S = {} => answer'.value = <<>>
                /\ S # {} => answer'.value =
                       IF answer'.query \in {"max_shear", "max_moment"}
                       THEN <<Max(S)>> ELSE <<Min(S)>>
                /\ nodes' = nodes
                /\ elements' = elements]_vars

\* a maximum found at the centre of an element whose second load combination
\* was asked for, and a query that found nothing
C16_Witness ==
    /\ answer.status = "returned"
    /\ answer.query = "max_moment"
    /\ answer.combo = <<"Combo 2">>
    /\ answer.value = <<9>>
    /\ \E key \in DOMAIN elements[answer.mesh] :
          \E pt \in CornersAndCentre(elements[answer.mesh][key]) :
             /\ pt \notin Range(SamplePointsMidSide(elements[answer.mesh][key]))
             /\ 9 \in Range(solved[answer.mesh][key].moment["Combo 2"][pt])

----------------------------------------------------------------------------
(* RectangleMesh: the segmentation of the grid *)

\* the lines that divide [a, b] into max(1, ceil((b - a)/s)) equal steps, a left out
EqualSteps(a, b, s) ==
    LET count == Max({1, CeilDiv(b - a, s)})
    IN  [t \in 1..count |-> a + (t * (b - a)) \div count]

\* the first control point, then the equal steps of every pair of adjacent
\* control points
RECURSIVE Segmentation(_, _, _)
Segmentation(p, s, k) ==
    IF k = 1 THEN <<p[1]>>
    ELSE Segmentation(p, s, k - 1) \o EqualSteps(p[k - 1], p[k], s)

\* lines is what the claim says of the control points p on an axis of length L
SegmentedAxis(lines, p, s, L) ==
    /\ lines = Segmentation(p, s, Len(p))
    /\ lines[1] = 0
    /\ lines[Len(lines)] = L
    /\ \A a \in 1..(Len(lines) - 1) : lines[a] < lines[a + 1]
    /\ \A k \in 1..Len(p) : Cardinality({a \in 1..Len(lines) : lines[a] = p[k]}) = 1

InRange(control, L) ==
    \A k \in 1..Len(control) : 0 <= control[k] /\ control[k] <= L

\* C18: along each axis of a RectangleMesh whose control points lie in [0, L],
\* every pair of adjacent control points (sorted, without duplicates) is divided
\* into max(1, ceil((p[k+1] - p[k])/s)) equal steps; the grid coordinates start
\* at 0, end at L, increase strictly and hold every control point once, also
\* where two segments with different step sizes meet
C18_GridSegmentation ==
    [][\A m \in Meshes :
         (Generates(m) /\ grid'[m].xs # <<>>) =>
            /\ InRange(heap'[xref[m]], cfg.width) =>
                  SegmentedAxis(grid'[m].xs, SortedSet(heap'[xref[m]]),
                                cfg.mesh_size, cfg.width)
            /\ InRange(heap'[yref[m]], cfg.height) =>
                  SegmentedAxis(grid'[m].ys, SortedSet(heap'[yref[m]]),
                                cfg.mesh_size, cfg.height)]_vars

\* a generated axis where a segment of one step meets a segment of another
\* step, the control points being those generate() read
C18_Witness ==
    \E m \in Meshes :
        /\ status[m] # "new"
        /\ Range(XControl(m)) \subseteq Range(grid[m].xs)
        /\ InRange(XControl(m), cfg.width)
        /\ InRange(YControl(m), cfg.height)
        /\ \E a \in 2..(Len(grid[m].xs) - 1) :
              /\ grid[m].xs[a] \in Range(XControl(m))
              /\ grid[m].xs[a] - grid[m].xs[a - 1] # grid[m].xs[a + 1] - grid[m].xs[a]

----------------------------------------------------------------------------
(* RectangleMesh: the opening test *)

\* the grid point node number k (after node_offset) was created at
GridPoint(g, k) ==
    <<g.xs[((k - 1) % Len(g.xs)) + 1], g.ys[((k - 1) \div Len(g.xs)) + 1]>>

\* the grid cell <<x_left, y_bott, x_right, y_top>> element number i (after
\* element_offset) was created over
GridCell(g, i) ==
    LET col == ((i - 1) % (Len(g.xs) - 1)) + 1
        row == ((i - 1) \div (Len(g.xs) - 1)) + 1
    IN  <<g.xs[col], g.ys[row], g.xs[col + 1], g.ys[row + 1]>>

\* the rectangle lies within the opening, bounds included
Within(cell, o) ==
    /\ o.x_left <= cell[1] /\ cell[3] <= o.x_left + o.width
    /\ o.y_bott <= cell[2] /\ cell[4] <= o.y_bott + o.height

\* the rectangle meets the opening in an edge or a corner only, from outside
TouchesFromOutside(cell, o) ==
    /\ \/ cell[3] = o.x_left \/ cell[1] = o.x_left + o.width
       \/ cell[4] = o.y_bott \/ cell[2] = o.y_bott + o.height
    /\ cell[3] >= o.x_left /\ cell[1] <= o.x_left + o.width
    /\ cell[4] >= o.y_bott /\ cell[2] <= o.y_bott + o.height
    /\ ~Within(cell, o)

OnBoundary(xy, o) ==
    /\ o.x_left <= xy[1] /\ xy[1] <= o.x_left + o.width
    /\ o.y_bott <= xy[2] /\ xy[2] <= o.y_bott + o.height
    /\ ~StrictlyInside(xy[1], xy[2], o)

\* C19: in generate() the opening test marks a node for removal if and only if
\* its local (u, v) lies strictly inside some declared opening, so that a node
\* on an opening boundary is missing afterwards only where no remaining element
\* refers to it; and it removes an element if and only if its bounding local
\* rectangle lies within some single opening, bounds included, so that an
\* element flush with the opening is removed and one that meets it in an edge or
\* corner from outside is kept
C19_OpeningTest ==
    [][\A m \in Meshes :
         (Generates(m) /\ grid'[m].xs # <<>>) =>
            LET g        == grid'[m]
                opns     == openings[m]
                node_num == 1..(Len(g.xs) * Len(g.ys))
                elem_num == 1..((Len(g.xs) - 1) * (Len(g.ys) - 1))
            IN  /\ g.node_del_list =
                      {k \in node_num : \E o \in DOMAIN opns :
                          StrictlyInside(GridPoint(g, k)[1], GridPoint(g, k)[2], opns[o])}
                /\ g.element_del_list =
                      {i \in elem_num : \E o \in DOMAIN opns : Within(GridCell(g, i), opns[o])}
                /\ DOMAIN elements'[m] = elem_num \ g.element_del_list
                /\ DOMAIN nodes'[m] \cap g.node_del_list = {}
                /\ \A k \in node_num \ g.node_del_list :
                      k \in DOMAIN nodes'[m] \/
                      \A i \in DOMAIN elements'[m] :
                          GridPoint(g, k) \notin
                              {<<GridCell(g, i)[1], GridCell(g, i)[2]>>,
                               <<GridCell(g, i)[3], GridCell(g, i)[2]>>,
                               <<GridCell(g, i)[3], GridCell(g, i)[4]>>,
                               <<GridCell(g, i)[1], GridCell(g, i)[4]>>}]_vars

\* generate() returned on a mesh where a node strictly inside an opening was
\* marked, a node on the boundary of the opening is left, an element flush with
\* the opening is gone, and an element that meets it from outside is left
C19_Witness ==
    \E m \in Meshes :
        /\ status[m] = "generated"
        /\ grid[m].node_del_list # {}
        /\ \E o \in DOMAIN openings[m] :
              /\ \E k \in DOMAIN nodes[m] : OnBoundary(LocalXY(nodes[m][k]), openings[m][o])
              /\ \E i \in grid[m].element_del_list :
                    /\ Within(GridCell(grid[m], i), openings[m][o])
                    /\ GridCell(grid[m], i)[1] = openings[m][o].x_left
              /\ \E i \in DOMAIN elements[m] :
                    TouchesFromOutside(GridCell(grid[m], i), openings[m][o])

----------------------------------------------------------------------------
(* AnnulusTransRingMesh: the ring is conforming *)

\* the four edges of an element, each the pair of nodes it joins
Edges(el) ==
    {{el.i_node, el.j_node}, {el.j_node, el.m_node},
     {el.m_node, el.n_node}, {el.n_node, el.i_node}}

\* the elements of the ring that have the edge
ElementsAt(edge) ==
    {k \in DOMAIN ring.elements : edge \in Edges(ring.elements[k])}

\* the ring of n inner sectors is conforming
Conforming(n) ==
    LET off      == IntOf(Slice1(ring.args.start_node)) - 1
        N(i)     == ring.nodes[off + i]
        inner(k) == {N(k), N((k % n) + 1)}
        outer(k) == {N(3 * n + k), N(3 * n + (k % (3 * n)) + 1)}
        boundary == {inner(k) : k \in 1..n} \cup {outer(k) : k \in 1..(3 * n)}
        between  == (UNION {Edges(ring.elements[k]) : k \in DOMAIN ring.elements}) \ boundary
    IN  /\ Cardinality(DOMAIN ring.elements) = 4 * n
        /\ \A k \in 1..n : Cardinality(ElementsAt(inner(k))) = 1
        /\ \A k \in 1..(3 * n) : Cardinality(ElementsAt(outer(k))) = 1
        /\ \A edge \in between : Cardinality(ElementsAt(edge)) = 2
        /\ \A i \in 1..(6 * n) :
              \E k \in DOMAIN ring.elements : N(i) \in ElementRefs(ring.elements[k])

\* C20 as amended: for every n >= 3 the 4n elements of AnnulusTransRingMesh
\* form a conforming ring: each of the n inner sectors (consecutive inner
\* nodes, with wrap-around) is an edge of exactly one element, each of the 3n
\* outer sectors is an edge of exactly one element, every edge between the
\* inner and the outer boundary is shared by exactly two elements, and each of
\* the 6n nodes is referenced by at least one element
C20_ConformingFromThree ==
    (TransRing /\ ring.args.num_quads >= 3) => Conforming(ring.args.num_quads)

\* C20 as stated: the same for every n >= 2
C20_ConformingFromTwo ==
    (TransRing /\ ring.args.num_quads >= 2) => Conforming(ring.args.num_quads)

\* a transition ring of three inner sectors whose last inner element wraps
\* around to the first inner node
C20_Witness ==
    /\ TransRing
    /\ ring.args.num_quads = 3
    /\ Cardinality(DOMAIN ring.elements) = 12
    /\ \E k \in DOMAIN ring.elements :
          {ring.elements[k].m_node.Name, ring.elements[k].n_node.Name} =
              {NodeName(IntOf(Slice1(ring.args.start_node))),
               NodeName(IntOf(Slice1(ring.args.start_node)) + 2)}

----------------------------------------------------------------------------
(* Sweeps: the merge of the rings *)

\* the record the registry of the sweep holds under the name of the node
Registered(node) ==
    sweep.nodes[IntOf(Slice1(node.Name))]

\* C21: after the construction of an AnnulusMesh, FrustrumMesh or CylinderMesh
\* has completed, each of the four node references of every element of
\* mesh.elements is the very record mesh.nodes holds under the name of that
\* node: no element still refers to a record that a merge discarded
C21_ElementsHoldRegistryRecords ==
    sweep.status = "generated" =>
        \A k \in DOMAIN sweep.elements :
            \A node \in ElementRefs(sweep.elements[k]) :
                /\ IntOf(Slice1(node.Name)) \in DOMAIN sweep.nodes
                /\ Registered(node) = node

\* a completed sweep of two rings or more, with an element of one ring that
\* refers to records another ring created
C21_Witness ==
    /\ sweep.status = "generated"
    /\ sweep.rings >= 2
    /\ \E k \in DOMAIN sweep.elements :
          \E a, b \in ElementRefs(sweep.elements[k]) : a.owner # b.owner

\* the step that merges the ring built last into the registries of the sweep
Merges ==
    sweep.status = "update" /\ sweep'.status = "loop"

\* the step of the closing loop of a sweep
Closes ==
    sweep.status = "loop" /\ sweep'.status \in {"annulus", "generated"}

\* the node references of an element, by attribute
Corner(el) ==
    [c \in {"i", "j", "m", "n"} |->
        IF c = "i" THEN el.i_node ELSE IF c = "j" THEN el.j_node
        ELSE IF c = "m" THEN el.m_node ELSE el.n_node]

\* C22 as amended: when a sweep merges a new ring whose boundary node names are
\* in its registry already, the record that survives under each shared name is
\* the later-inserted one (from the new ring), and the closing loop redirects
\* the elements of the previous ring to it
C22_LaterRecordSurvives ==
    [][/\ Merges =>
            \A k \in SharedNodes :
                /\ sweep'.nodes[k] = ring.nodes[k]
                /\ sweep'.nodes[k] # sweep.nodes[k]
       /\ Closes =>
            \A k \in DOMAIN sweep.elements :
                \A c \in {"i", "j", "m", "n"} :
                    LET old == Corner(sweep.elements[k])[c]
                        new == Corner(sweep'.elements[k])[c]
                    IN  /\ new = Registered(old)
                        /\ new # old => old.owner < new.owner]_vars

\* C22 as stated: the record that survives under each shared name is the
\* earlier-inserted one (from the previous ring), and the elements of the later
\* ring are redirected to it
C22_EarlierRecordSurvives ==
    [][/\ Merges =>
            \A k \in SharedNodes : sweep'.nodes[k] = sweep.nodes[k]
       /\ Closes =>
            \A k \in DOMAIN sweep.elements :
                \A c \in {"i", "j", "m", "n"} :
                    LET old == Corner(sweep.elements[k])[c]
                        new == Corner(sweep'.elements[k])[c]
                    IN  /\ new = Registered(old)
                        /\ new # old => old.owner > new.owner]_vars

\* a second or later ring has been merged: the registry holds its record under
\* a shared name, and an element of the ring before still refers to the record
\* the merge replaced
C22_Witness ==
    /\ sweep.status = "loop"
    /\ sweep.rings >= 2
    /\ \E k \in DOMAIN sweep.elements :
          \E node \in ElementRefs(sweep.elements[k]) :
              /\ node.owner = sweep.rings - 1
              /\ Registered(node).owner = sweep.rings
              /\ Location(Registered(node)) = Location(node)

----------------------------------------------------------------------------
(* Sweeps: the sector count *)

\* the sweep has entered its loop
Sweeping ==
    sweep.status \in {"loop", "update"}

\* C23: the circumferential sector count used by the sweeps is at least 1 for
\* every positive radius and mesh size: AnnulusMesh and FrustrumMesh start
\* from a count of at least 1, CylinderMesh asks its rings for at least one
\* sector, and no division by the sector count fails
C23_SectorCountAtLeastOne ==
    /\ Sweeping /\ sweep.kind \in AnnulusKinds /\ sweep.r1 > 0 /\ sweep.mesh_size > 0
           => sweep.n_circ >= 1
    /\ Sweeping /\ sweep.kind = "CylinderMesh" /\ sweep.radius > 0 /\ sweep.mesh_size > 0
           => sweep.self_num_elements >= 1
    /\ sweep.status = "ZeroDivisionError"
           => /\ sweep.kind \in AnnulusKinds => sweep.n_circ >= 1
              /\ sweep.kind = "CylinderMesh" => sweep.self_num_elements >= 1

\* the step of the loop of AnnulusMesh._generate that builds a ring
BuildsAnnulusRing ==
    /\ sweep.status = "loop"
    /\ sweep'.status = "update"
    /\ sweep.kind \in AnnulusKinds

\* circumf/n_circ > 3*mesh_size at the inner radius r of the ring to build,
\* for a sector count n_circ >= 1
TooWide(r, n_circ, mesh_size) ==
    2 * Pi[1] * r > 3 * mesh_size * n_circ * Pi[2]

\* the number of sectors on the outer edge of a ring: its nodes at the outer radius
OuterSectors(r) ==
    Cardinality({k \in DOMAIN r.nodes :
                    RingRadius(r.nodes[k], r.args.axis) = r.args.outer_radius})

\* C24: in each pass of the AnnulusMesh sweep a transition ring is built
\* exactly if the circumference over the current sector count exceeds 3 times
\* the mesh size, otherwise a plain ring; a transition multiplies the sector
\* count by 3 for the rings after it, the sector count never decreases, and
\* when the sweep ends num_quads_outer is the number of sectors on the outer
\* edge of the last ring
C24_TransitionTriplesSectors ==
    [][/\ BuildsAnnulusRing =>
            LET wide == TooWide(sweep.r_inner, sweep.n_circ, sweep.mesh_size)
            IN  /\ ring'.kind = IF wide THEN "AnnulusTransRingMesh" ELSE "AnnulusRingMesh"
                /\ ring'.args.num_quads = sweep.n_circ
                /\ ring'.args.inner_radius = sweep.r_inner
                /\ sweep'.n_circ = IF wide THEN 3 * sweep.n_circ ELSE sweep.n_circ
                /\ OuterSectors(ring') = sweep'.n_circ
       /\ Sweeping /\ sweep.kind \in AnnulusKinds => sweep'.n_circ >= sweep.n_circ
       /\ Closes /\ sweep.kind \in AnnulusKinds /\ sweep.rings >= 1 =>
            /\ sweep'.num_quads_outer = OuterSectors(ring)
            /\ sweep'.num_quads_outer = sweep.n_circ]_vars

\* a completed AnnulusMesh whose last ring is a plain ring with three times the
\* sectors the sweep started from: a transition ring was built before it
C24_Witness ==
    /\ sweep.status = "generated"
    /\ sweep.kind = "AnnulusMesh"
    /\ ring.status = "generated"
    /\ ring.kind = "AnnulusRingMesh"
    /\ NCirc(sweep.r1, sweep.mesh_size) >= 1
    /\ ring.args.num_quads = 3 * NCirc(sweep.r1, sweep.mesh_size)
    /\ sweep.num_quads_outer = ring.args.num_quads

----------------------------------------------------------------------------
(* Sweeps: the axial steps of CylinderMesh *)

\* C25: in every pass of the CylinderMesh sweep the remaining height is divided
\* evenly into whole elements whose height is at most mesh_size, for every
\* height > 0 and mesh_size > 0: the division does not fail, the height h_y of
\* the ring divides the remaining height, and h_y <= mesh_size
C25_StepsWithinMeshSize ==
    sweep.status \notin {"none", "new"} /\ sweep.kind = "CylinderMesh"
    /\ sweep.height > 0 /\ sweep.mesh_size > 0 /\ sweep.self_num_elements >= 1 =>
        /\ sweep.status # "ZeroDivisionError"
        /\ sweep.status = "update" =>
              /\ sweep.h > 0
              /\ (sweep.height - sweep.y) % sweep.h = 0
              /\ sweep.h <= sweep.mesh_size

----------------------------------------------------------------------------
(* FrustrumMesh: the displacement of the nodes *)

\* the step of FrustrumMesh.__init__ that moves the nodes of the annulus
Adjusts ==
    sweep.status = "annulus" /\ sweep'.status = "generated"

\* the two coordinates of a node perpendicular to the axis
Perpendicular(node, axis) ==
    IF axis = "Y" THEN <<node.X, node.Z>>
    ELSE IF axis = "X" THEN <<node.Y, node.Z>>
    ELSE <<node.X, node.Y>>

\* C26: for each axis X, Y and Z FrustrumMesh displaces every node along the
\* axis by (r - large_radius)/(large_radius - small_radius)*height, r being
\* the node's own distance from the axis of revolution, measured in the two
\* coordinates perpendicular to the axis; every node record is displaced once
\* and its two perpendicular coordinates are unchanged
C26_DisplacedByOwnRadius ==
    [][Adjusts =>
          /\ DOMAIN sweep'.nodes = DOMAIN sweep.nodes
          /\ \A k \in DOMAIN sweep.nodes :
                LET old  == sweep.nodes[k]
                    new  == sweep'.nodes[k]
                    r    == RingRadius(old, sweep.axis)
                    was  == AxisCoordinate(old, sweep.axis)
                    is   == AxisCoordinate(new, sweep.axis)
                IN  /\ Perpendicular(new, sweep.axis) = Perpendicular(old, sweep.axis)
                    /\ is.off = was.off
                    /\ is.of = <<>>
                    /\ is.rise = RiseOf(<<r, 1, "one", <<0, 1>>>>,
                                        sweep.r2, sweep.r1, sweep.height)]_vars

----------------------------------------------------------------------------
(* RectangleMesh: the elements over the grid *)

\* the element spans one cell of the grid between consecutive grid lines, its
\* nodes counter-clockwise in local coordinates from the lower left corner
OneCell(el, g) ==
    \E col \in 1..(Len(g.xs) - 1), row \in 1..(Len(g.ys) - 1) :
        LET x0 == g.xs[col]
            x1 == g.xs[col + 1]
            y0 == g.ys[row]
            y1 == g.ys[row + 1]
        IN  /\ x0 < x1
            /\ y0 < y1
            /\ LocalXY(el.i_node) = <<x0, y0>>
            /\ LocalXY(el.j_node) = <<x1, y0>>
            /\ LocalXY(el.m_node) = <<x1, y1>>
            /\ LocalXY(el.n_node) = <<x0, y1>>

\* the elements generate() creates over the grid g, before any is removed
CreatedOver(g) ==
    GridElements(cfg, GridNodes(cfg, g.xs, g.ys, IntOf(Slice1(cfg.start_node)) - 1),
                 IntOf(Slice1(cfg.start_node)) - 1, IntOf(Slice1(cfg.start_element)) - 1,
                 NumCols(g.xs, g.ys), NumRows(g.ys))

\* C27: every element of a RectangleMesh, before and after the openings are
\* cut out, spans exactly one grid cell with counter-clockwise winding in local
\* coordinates: i = (x0, y0), j = (x1, y0), m = (x1, y1), n = (x0, y1) with
\* x0 < x1 and y0 < y1 consecutive grid lines; no element straddles the end
\* of a row, whatever the numbers of columns and rows and the control points
C27_ElementsSpanOneCell ==
    [][\A m \in Meshes :
         (Generates(m) /\ grid'[m].xs # <<>>) =>
            LET g == grid'[m]
            IN  /\ \A i \in DOMAIN CreatedOver(g) : OneCell(CreatedOver(g)[i], g)
                /\ \A i \in DOMAIN elements'[m] :
                      /\ OneCell(elements'[m][i], g)
                      /\ i \in DOMAIN CreatedOver(g)
                      /\ Corner(elements'[m][i]) = Corner(CreatedOver(g)[i])]_vars

\* a generated mesh of two rows and two columns or more, of which an opening
\* has taken an element, with control points that make the columns unequal;
\* the last element of the first row and the first element of the second row
\* are both left, the one ending and the other starting at a row end
C27_Witness ==
    \E m \in Meshes :
        /\ status[m] = "generated"
        /\ Len(grid[m].xs) >= 3
        /\ Len(grid[m].ys) >= 3
        /\ grid[m].element_del_list # {}
        /\ DOMAIN elements[m] # {}
        /\ \E c \in 1..(Len(grid[m].xs) - 2) :
              grid[m].xs[c + 1] - grid[m].xs[c] # grid[m].xs[c + 2] - grid[m].xs[c + 1]
        /\ \E i \in DOMAIN elements[m] :
              /\ i - 1 \in DOMAIN elements[m]
              /\ LocalXY(elements[m][i - 1].j_node) = <<grid[m].xs[Len(grid[m].xs)], grid[m].ys[1]>>
              /\ LocalXY(elements[m][i].i_node) = <<grid[m].xs[1], grid[m].ys[2]>>

----------------------------------------------------------------------------
(* The parameters shared by the elements of a mesh *)

\* the element has the t, E, nu, kx_mod and ky_mod the object o was given
Carries(el, o) ==
    /\ el.t = o.t
    /\ el.E = o.E
    /\ el.nu = o.nu
    /\ el.kx_mod = o.kx_mod
    /\ el.ky_mod = o.ky_mod

\* C28: every element of a generated mesh carries the shared parameters of its
\* mesh: for every generator, CylinderMesh and the rings it stacks included,
\* the t, E, nu, kx_mod and ky_mod of each element are those given to the
\* constructor of the mesh
C28_ElementsCarrySharedParameters ==
    /\ \A m \in DOMAIN elements :
          \A k \in DOMAIN elements[m] : Carries(elements[m][k], cfg)
    /\ ring.status = "generated" =>
          \A k \in DOMAIN ring.elements : Carries(ring.elements[k], ring.args)
    /\ sweep.status \in {"loop", "update", "annulus", "generated"} =>
          /\ \A k \in DOMAIN sweep.elements : Carries(sweep.elements[k], sweep)
          /\ ring.status = "generated" =>
                \A k \in DOMAIN ring.elements : Carries(ring.elements[k], sweep)

----------------------------------------------------------------------------
(* CylinderMesh: centre and height *)

\* the position of the coordinate along the axis in <<X, Y, Z>>
AxisIndex(axis) ==
    IF axis = "X" THEN 1 ELSE IF axis = "Y" THEN 2 ELSE 3

\* C29: CylinderMesh honours its center and its height for every axis: the
\* nodes lie on circles of the radius centred on the line through center
\* parallel to the axis, and their coordinates along the axis span exactly
\* [c, c + height], c being the component of center along the axis
C29_CentreAndHeightHonoured ==
    (sweep.status = "generated" /\ sweep.kind = "CylinderMesh" /\ sweep.height > 0) =>
        LET ax    == AxisIndex(sweep.axis)
            c     == sweep.center[ax]
            xyz   == [k \in DOMAIN sweep.nodes |->
                         <<sweep.nodes[k].X, sweep.nodes[k].Y, sweep.nodes[k].Z>>]
            along == {xyz[k][ax].off : k \in DOMAIN sweep.nodes}
        IN  /\ \A k \in DOMAIN sweep.nodes :
                  /\ \A i \in {1, 2, 3} \ {ax} :
                        /\ xyz[k][i].off = sweep.center[i]
                        /\ xyz[k][i].r = sweep.radius
                  /\ xyz[k][ax].r = 0
                  /\ c <= xyz[k][ax].off
                  /\ xyz[k][ax].off <= c + sweep.height
            /\ c \in along
            /\ c + sweep.height \in along

----------------------------------------------------------------------------
(* binary64: the floating-point arithmetic of the code *)

\* binary64 numbers: [m |-> mantissa, e |-> exponent] for m * 2^e, the mantissa
\* a natural number of 53 bits (none for 0) held as its digits in base Base,
\* lowest first, without leading zeros

\* 2^14: a product of two digits stays within the integers of the model
Base == 16384

\* the digits of the natural number n, below 2^31
BigOf(n) ==
    IF n = 0 THEN <<>>
    ELSE IF n < Base THEN <<n>>
    ELSE IF n < Base * Base THEN <<n % Base, n \div Base>>
    ELSE <<n % Base, (n \div Base) % Base, n \div (Base * Base)>>

\* digit i of a
Digit(a, i) ==
    IF i <= Len(a) THEN a[i] ELSE 0

\* the natural number of the digits a, below 2^31
IntOfBig(a) ==
    Digit(a, 1) + Base * Digit(a, 2) + Base * Base * Digit(a, 3)

\* a without leading zeros
Norm(a) ==
    SubSeq(a, 1, IF \A i \in 1..Len(a) : a[i] = 0 THEN 0
                 ELSE CHOOSE n \in 1..Len(a) :
                          a[n] # 0 /\ \A i \in (n + 1)..Len(a) : a[i] = 0)

\* a + b: a digit receives a carry when a lower digit overflows and the digits
\* between pass the carry on
BigAdd(a, b) ==
    LET n        == IF Len(a) < Len(b) THEN Len(b) ELSE Len(a)
        sum(i)   == Digit(a, i) + Digit(b, i)
        carry(i) == \E j \in 1..(i - 1) :
                        sum(j) >= Base /\ \A k \in (j + 1)..(i - 1) : sum(k) = Base - 1
    IN  Norm([i \in 1..(n + 1) |-> (sum(i) + IF carry(i) THEN 1 ELSE 0) % Base])

\* a - b, for a >= b: a digit lends when a lower digit falls short and the
\* digits between are equal
BigSub(a, b) ==
    LET lend(i) == \E j \in 1..(i - 1) :
                       a[j] < Digit(b, j) /\ \A k \in (j + 1)..(i - 1) : a[k] = Digit(b, k)
    IN  Norm([i \in 1..Len(a) |->
                 (Base + a[i] - Digit(b, i) - IF lend(i) THEN 1 ELSE 0) % Base])

BigLess(a, b) ==
    \/ Len(a) < Len(b)
    \/ /\ Len(a) = Len(b)
       /\ \E i \in 1..Len(a) : a[i] < b[i] /\ \A j \in (i + 1)..Len(a) : a[j] = b[j]

\* a * k, for a digit k: the low and the high digits of the products
BigTimes(a, k) ==
    BigAdd([i \in 1..Len(a) |-> (a[i] * k) % Base],
           <<0>> \o [i \in 1..Len(a) |-> (a[i] * k) \div Base])

\* a * b, for a of at most four digits (a mantissa)
BigMul(a, b) ==
    LET part(i) == IF Digit(a, i) = 0 THEN <<>>
                   ELSE [j \in 1..(i - 1) |-> 0] \o BigTimes(b, a[i])
    IN  BigAdd(BigAdd(part(1), part(2)), BigAdd(part(3), part(4)))

\* a * 2^k
BigShl(a, k) ==
    IF a = <<>> THEN <<>>
    ELSE [i \in 1..(k \div 14) |-> 0] \o BigTimes(a, 2 ^ (k % 14))

\* the number of bits of a
BitLen(a) ==
    IF a = <<>> THEN 0
    ELSE 14 * (Len(a) - 1) + CHOOSE n \in 1..14 : a[Len(a)] \div (2 ^ (n - 1)) = 1

\* a \div 2^k
BigShr(a, k) ==
    LET w == k \div 14
        b == k % 14
    IN  IF w >= Len(a) THEN <<>>
        ELSE Norm([i \in 1..(Len(a) - w) |->
                      (a[i + w] \div (2 ^ b))
                      + (Digit(a, i + w + 1) % (2 ^ b)) * (2 ^ (14 - b))])

BigOdd(a) ==
    a # <<>> /\ a[1] % 2 = 1

\* a / 2^k rounded to the nearest natural number, a tie to the even one
BigRound(a, k) ==
    IF k <= 0 THEN BigShl(a, -k)
    ELSE LET kept == BigShr(a, k)
             half == BigOdd(BigShr(a, k - 1))
             rest == BigShl(BigShr(a, k - 1), k - 1) # a
         IN  IF half /\ (rest \/ BigOdd(kept)) THEN BigAdd(kept, <<1>>) ELSE kept

RECURSIVE BigDigit(_, _, _)
\* r \div q, a digit, found downwards from guess
BigDigit(r, q, guess) ==
    IF guess > 0 /\ BigLess(r, BigTimes(q, guess))
    THEN BigDigit(r, q, guess - 1) ELSE guess

RECURSIVE BigDivFrom(_, _, _)
\* long division of p by q: <<quotient, remainder>> of the digits of p from
\* digit i upwards, digit i brought down to the remainder of the digits above
BigDivFrom(p, q, i) ==
    IF i + Len(q) > Len(p) + 1 THEN <<<<>>, SubSeq(p, i, Len(p))>>
    ELSE LET above == BigDivFrom(p, q, i + 1)
         IN  IF above[2] = <<>> /\ p[i] = 0 THEN <<<<0>> \o above[1], <<>>>>
             ELSE LET r   == Norm(<<p[i]>> \o above[2])
                      k   == IF BitLen(q) > 14 THEN BitLen(q) - 14 ELSE 0
                      top == (IntOfBig(BigShr(r, k)) + 1) \div IntOfBig(BigShr(q, k))
                      d   == BigDigit(r, q, IF top < Base THEN top ELSE Base - 1)
                  IN  <<<<d>> \o above[1],
                        IF d = 0 THEN r ELSE BigSub(r, BigTimes(q, d))>>

\* <<p \div q, p % q>>
BigDivMod(p, q) ==
    LET dm == BigDivFrom(p, q, 1) IN <<Norm(dm[1]), dm[2]>>

\* the binary64 number nearest to m * 2^e, a tie to the even mantissa
Rounded(m, e) ==
    IF m = <<>> THEN [m |-> <<>>, e |-> 0]
    ELSE LET d == BitLen(m) - 53
             r == BigRound(m, d)
         IN  IF BitLen(r) = 54 THEN [m |-> BigShr(r, 1), e |-> e + d + 1]
             ELSE [m |-> r, e |-> e + d]

\* the binary64 number nearest to (p / q) * 2^e: the quotient is taken to 55
\* bits at least, with one more bit for a remainder
Nearest(p, q, e) ==
    IF p = <<>> THEN [m |-> <<>>, e |-> 0]
    ELSE LET s  == 55 + BitLen(q) - BitLen(p)
             dm == BigDivMod(IF s > 0 THEN BigShl(p, s) ELSE p,
                             IF s < 0 THEN BigShl(q, -s) ELSE q)
         IN  IF dm[2] = <<>> THEN Rounded(dm[1], e - s)
             ELSE Rounded(BigAdd(BigShl(dm[1], 1), <<1>>), e - s - 1)

\* float(n), for a natural number n below 2^31
FloatOf(n) ==
    Rounded(BigOf(n), 0)

\* the binary64 number of the literal p/q
Float(p, q) ==
    Nearest(BigOf(p), BigOf(q), 0)

\* the mantissas of a and b at their lower exponent
Aligned(a, b) ==
    LET e == IF a.e < b.e THEN a.e ELSE b.e
    IN  [a |-> BigShl(a.m, a.e - e), b |-> BigShl(b.m, b.e - e), e |-> e]

\* a + b
FAdd(a, b) ==
    LET c == Aligned(a, b) IN Rounded(BigAdd(c.a, c.b), c.e)

\* a - b, for a >= b
FSub(a, b) ==
    LET c == Aligned(a, b) IN Rounded(BigSub(c.a, c.b), c.e)

\* a * b
FMul(a, b) ==
    Rounded(BigMul(a.m, b.m), a.e + b.e)

\* a / b
FDiv(a, b) ==
    Nearest(a.m, b.m, a.e - b.e)

\* a < b
FLess(a, b) ==
    LET c == Aligned(a, b) IN BigLess(c.a, c.b)

\* int(a)
FInt(a) ==
    IF a.e >= 0 THEN IntOfBig(BigShl(a.m, a.e)) ELSE IntOfBig(BigShr(a.m, -a.e))

\* 10^10
Ten10 ==
    <<9216, 4143, 37>>

\* round(a, 10): the number nearest to a * 10^10, a tie to the even one, over
\* 10^10
Round10(a) ==
    Nearest(BigRound(BigMul(a.m, Ten10), -a.e), Ten10, 0)

\* pi
PiFloat ==
    [m |-> <<11544, 4368, 8117, 1608>>, e |-> -51]

----------------------------------------------------------------------------
(* AnnulusMesh: the radial sweep in binary64 arithmetic *)

\* The sweeps above are drawn from lengths that binary64 holds exactly, so
\* that their quotients are the ones of the code.  Here the radii and the mesh
\* size are decimal literals in tenths, which binary64 rounds, and the loop of
\* AnnulusMesh._generate is followed in the arithmetic of the code: the rings
\* are recorded by the arguments they are built from, without their nodes and
\* elements.

\* circumf = 2*pi*r
FCircumf(r) ==
    FMul(FMul(FloatOf(2), PiFloat), r)

\* round(r_inner, 10) < round(r_outer, 10)
RadialGuard ==
    FLess(Round10(sweep.r_inner), Round10(sweep.r2))

\* AnnulusMesh._generate, up to its loop
RadialBegin ==
    /\ sweep.status = "binary64"
    /\ LET circumf == FCircumf(sweep.r1)
           n_circ  == FInt(FDiv(circumf, sweep.mesh_size))
       IN  sweep' = [sweep EXCEPT !.r_inner = sweep.r1,
                                  !.circumf = circumf,
                                  !.n_circ = n_circ,
                                  !.num_quads_outer = n_circ,
                                  !.status = "radial"]
    /\ UNCHANGED <<rectVars, ring>>

\* a pass of the loop of AnnulusMesh._generate begins: what remains to be
\* meshed and the width of the sectors
RadialMeasure ==
    /\ sweep.status = "radial"
    /\ RadialGuard
    /\ LET radial  == FSub(sweep.r2, sweep.r_inner)
           circumf == FCircumf(sweep.r_inner)
       IN  IF sweep.n_circ = 0
           THEN sweep' = [sweep EXCEPT !.radial = radial, !.circumf = circumf,
                                       !.status = "ZeroDivisionError"]
           ELSE sweep' = [sweep EXCEPT !.radial = radial, !.circumf = circumf,
                                       !.b_circ = FDiv(circumf, FloatOf(sweep.n_circ)),
                                       !.status = "divide"]
    /\ UNCHANGED <<rectVars, ring>>

\* the pass goes on: the height of the ring, the ring and the next inner
\* radius; the rings have a recognized axis and well-formed names, and are
\* built whenever they have a sector
RadialRing ==
    /\ sweep.status = "divide"
    /\ LET wide  == FMul(FloatOf(3), sweep.b_circ)
           width == IF FLess(wide, sweep.mesh_size) THEN wide ELSE sweep.mesh_size
           n_rad == FInt(FDiv(sweep.radial, width))
       IN  IF n_rad = 0
           THEN sweep' = [sweep EXCEPT !.n_rad = n_rad, !.status = "ZeroDivisionError"]
           ELSE
           LET h_rad      == FDiv(sweep.radial, FloatOf(n_rad))
               transition == FLess(FMul(FloatOf(3), sweep.mesh_size), sweep.b_circ)
               r_outer    == FAdd(sweep.r_inner, h_rad)
           IN  sweep' = [sweep EXCEPT
                     !.n_rad = n_rad, !.h_rad = h_rad,
                     !.made = Append(@, [outer |-> r_outer, inner |-> sweep.r_inner,
                                         num_quads |-> sweep.n_circ,
                                         transition |-> transition,
                                         h_rad |-> h_rad]),
                     !.n_circ = IF transition THEN 3 * @ ELSE @,
                     !.num_quads_outer = IF transition THEN 3 * sweep.n_circ ELSE @,
                     !.r_inner = r_outer,
                     !.status = "radial"]
    /\ UNCHANGED <<rectVars, ring>>

\* the loop of AnnulusMesh._generate has ended
RadialEnd ==
    /\ sweep.status = "radial"
    /\ ~RadialGuard
    /\ sweep' = [sweep EXCEPT !.status = "generated"]
    /\ UNCHANGED <<rectVars, ring>>

\* the arguments drawn for AnnulusMesh as decimal literals: mesh_size,
\* inner_radius and the radial depth in tenths
RadialSweeps ==
    {[kind |-> "AnnulusMesh", mesh_size |-> Float(s, 10), r1 |-> Float(i, 10),
      r2 |-> Float(i + w, 10), tenths |-> [mesh_size |-> s, r1 |-> i, r2 |-> i + w],
      r_inner |-> Float(0, 1), n_circ |-> 0, num_quads_outer |-> "None",
      radial |-> Float(0, 1), circumf |-> Float(0, 1), b_circ |-> Float(0, 1),
      n_rad |-> 0, h_rad |-> Float(0, 1), made |-> <<>>,
      status |-> "binary64"] :
        s \in {1, 2, 5}, i \in {5, 10}, w \in 1..MaxTenths}

InitRadial ==
    /\ NoRectangle
    /\ ring = [status |-> "none"]
    /\ sweep \in RadialSweeps

NextRadial ==
    \/ RadialBegin
    \/ RadialMeasure
    \/ RadialRing
    \/ RadialEnd

\* the radial sweep of AnnulusMesh on decimal arguments
SpecRadial ==
    InitRadial /\ [][NextRadial]_vars

----------------------------------------------------------------------------
(* AnnulusMesh: rings of equal height *)

\* the radial depth r2 - r1 of the annulus
RadialDepth ==
    FSub(sweep.r2, sweep.r1)

\* the number of times mesh_size fits in the radial depth
WholeRings ==
    FInt(FDiv(RadialDepth, sweep.mesh_size))

\* the annulus has a sector and is at least one mesh_size deep
Meshable ==
    /\ sweep.kind = "AnnulusMesh"
    /\ sweep.status \in {"radial", "divide", "generated", "ZeroDivisionError"}
    /\ sweep.n_circ >= 1
    /\ ~FLess(RadialDepth, sweep.mesh_size)

\* C30: an annulus of at least one mesh_size of radial depth is divided into
\* floor((r2 - r1)/mesh_size) rings, all of the height (r2 - r1) divided by that
\* number: the height computed again on every pass is the one of the first pass
\* (heights compared to the 10 decimal places of the loop condition)
C30_RingsOfEqualHeight ==
    Meshable =>
        LET n      == WholeRings
            height == FDiv(RadialDepth, FloatOf(n))
        IN  /\ sweep.status # "ZeroDivisionError"
            /\ Len(sweep.made) <= n
            /\ sweep.status = "generated" => Len(sweep.made) = n
            /\ sweep.made # <<>> =>
                  LET h == Round10(height)
                  IN  \A i \in 1..Len(sweep.made) : Round10(sweep.made[i].h_rad) = h

====
